---------------------------- MODULE Spec2Model ----------------------------
(***************************************************************************)
(* SparseHDF5 benchmarks: the density sweep (benchmarks/sparse.c), the     *)
(* triplet ingester (benchmarks/mm2h5.c), the frame writer                 *)
(* (benchmarks/frame-writer-str.c) and the variable-length packer          *)
(* (benchmarks/vl.c), as state machines.                                   *)
(*                                                                         *)
(* A dataspace selection is the set of the coordinates <<row, col>> it     *)
(* selects.  The store (the HDF5 library) is modelled at its call sites:   *)
(* a selection operator SET replaces the selection, OR unites with it, and *)
(* a write assigns the memory buffer to the selected coordinates in        *)
(* row-major order, failing when the two element counts differ or a        *)
(* selected coordinate lies outside the dataset.                           *)
(***************************************************************************)
EXTENDS Integers, Sequences, FiniteSets, Bags, TLC

VARIABLES
    prog,       \* which program runs: "sparse", "create_hyperslab", "mm2h5",
                \* "frame" or "vl"
    pc,         \* the program's position
    rng,        \* hidden state of the C library's rand()
    \* ---- benchmarks/sparse.c
    hand,       \* handler_t hand: the command line options
    n,          \* main's loop index: level n+1 is being generated
    dataspace,  \* selection of the shared chunk-sized dataspace
    nelemts,    \* create_hyperslab's return value
    hs,         \* offset[] and block[] of the last block create_hyperslab selected
    data,       \* the value buffer of the level (<<>> when not allocated)
    group,      \* the datasets of the open group percent_(n+1)
    st,         \* storage_t st[MAX_PERCENT]
    st_assigned, \* how often each member of each st[i] has been assigned
    \* ---- benchmarks/mm2h5.c
    lines,      \* the lines of the input file (<<>> once fp is closed)
    gzip_level, \* argv[4]
    fpos,       \* position of fp: the index of the next line to read
    dims,       \* <<X, Y>>
    h5,         \* the output file: "none", "open" or "closed"
    dset,       \* the dataset "data": the cells written, coordinate -> value
    points,     \* the points kept for verification, each <<a, b, c>>
    cap_points, \* capacity of points
    group_count,
    overflow,   \* whether a point was stored past the end of points
    grp,        \* the group last handed to the store (none outside the loop)
    verify,     \* check_count, mismatches and the indices checked
    \* ---- benchmarks/frame-writer-str.c
    frame,      \* what parse_args returned
    cx,         \* chunk loop indices
    cy,
    filespace,  \* selection of the chunk's file dataspace
    num_points, \* points requested for the chunk (random pattern)
    pt,         \* index n of the point being generated
    chunk_buf,  \* values of the chunk
    slab,       \* the last contiguous slab: chunk offset, start[] and slab[]
    fdset,      \* the dataset: the cells written, coordinate -> value
    h5dwrites,  \* the coordinates each H5Dwrite call has written, in call order
    \* ---- benchmarks/vl.c
    vl_hand,    \* handler_t hand of vl.c, and the byte order of the build
    vl_i,       \* create_dsets' loop index i
    vl_data,    \* hvl_t *vl_data: the elements generated, each a byte string
    the_pairs,  \* the offsets and lengths written through p
    vl_offset,  \* unsigned long long offset
    total_len,
    all_strings, \* the blob
    vl_store,   \* the datasets of the four files: name -> values stored
    \* ---- benchmarks/mm2h5.c, read_next_group line by line
    rg,         \* capacity, count and the arrays a, b, c of the call
    \* ---- the heap
    mem,        \* the buffers whose allocation failed, and those of them that
                \* were stored through afterwards
    live,       \* the buffers and store handles acquired in the loop over the
                \* levels or groups and not released: a bag of their names
    \* ---- benchmarks/sparse.c, create_hyperslab
    generated   \* the coordinates of the blocks handed to H5Sselect_hyperslab
                \* in the last call of create_hyperslab

sweepVars == <<hand, n, dataspace, nelemts, hs, data, group, st, st_assigned>>

mmVars == <<lines, gzip_level, fpos, dims, h5, dset, points, cap_points,
            group_count, overflow, grp, verify>>

frameVars == <<frame, cx, cy, filespace, num_points, pt, chunk_buf, slab, fdset,
               h5dwrites>>

vlVars == <<vl_hand, vl_i, vl_data, the_pairs, vl_offset, total_len,
           all_strings, vl_store>>

rgVars == <<rg>>

memVars == <<mem>>

liveVars == <<live>>

genVars == <<generated>>

\* what the loop body of the density sweep, and of the ingester, leaves alone
besideSweep == <<mmVars, frameVars, vlVars, rgVars, memVars, genVars>>

besideMm == <<sweepVars, frameVars, vlVars, rgVars, memVars, genVars>>

nonSweepVars == <<besideSweep, liveVars>>

nonMmVars == <<besideMm, liveVars>>

nonFrameVars == <<sweepVars, mmVars, vlVars, rgVars, memVars, liveVars,
                  genVars>>

nonVlVars == <<sweepVars, mmVars, frameVars, rgVars, memVars, liveVars,
               genVars>>

vars == <<prog, pc, rng, sweepVars, mmVars, frameVars, vlVars, rgVars, memVars,
          liveVars, genVars>>

\* benchmarks/mm2h5.c has not run, or has read no group and verified nothing
NoGroupRead == [count |-> 0, a |-> <<>>, b |-> <<>>, c |-> <<>>,
                dspace |-> {}, written |-> FALSE]

NotVerified == [check_count |-> 0, mismatches |-> 0, checked |-> <<>>]

MmIdle ==
    /\ lines = <<>>
    /\ gzip_level = 0
    /\ fpos = 1
    /\ dims = <<0, 0>>
    /\ h5 = "none"
    /\ dset = [p \in {} |-> 0]
    /\ points = <<>>
    /\ cap_points = 0
    /\ group_count = 0
    /\ overflow = FALSE
    /\ grp = NoGroupRead
    /\ verify = NotVerified

\* benchmarks/frame-writer-str.c has not run
DefaultArgs ==
    [xdim |-> 100, ydim |-> 100, xchunk |-> 10, ychunk |-> 10, m |-> 10,
     compress |-> 0, random_data |-> 1, random_pattern |-> 1,
     have_outfile |-> TRUE, eval_order |-> "left"]

NoSlab == [offset |-> <<0, 0>>, start |-> <<0, 0>>, slab |-> <<0, 0>>]

FrameIdle ==
    /\ frame = DefaultArgs
    /\ cx = 0
    /\ cy = 0
    /\ filespace = {}
    /\ num_points = 0
    /\ pt = 0
    /\ chunk_buf = <<>>
    /\ slab = NoSlab
    /\ fdset = [p \in {} |-> 0]
    /\ h5dwrites = <<>>

\* read_next_group is not followed line by line
NoBuffer == [capacity |-> 0, count |-> 0, a |-> <<>>, b |-> <<>>, c |-> <<>>,
             appended |-> <<>>]

RgIdle == rg = NoBuffer

\* no allocation has failed
NoFailure == [failed |-> {}, stored |-> {}]

MemIdle == mem = NoFailure

\* nothing acquired in a loop is live
LiveIdle == live = EmptyBag

\* create_hyperslab has not been called
GenIdle == generated = {}

\* malloc, H5Screate_simple, H5Dcreate2, H5Pcreate, H5Gcreate, ... of the
\* resources named
Acquire(held, names) == held (+) SetToBag(names)

\* free, H5Sclose, H5Dclose, H5Pclose, H5Gclose, ... of the resources named
Release(held, names) == held (-) SetToBag(names)

\* benchmarks/vl.c has not run
NELEMTS == 1000
MAX_VL_LEN == 100

VlDefaults == [nelemts |-> NELEMTS, max_len |-> MAX_VL_LEN, d |-> 1,
               byte_order |-> "little"]

NoDatasets == [name \in {} |-> <<>>]

VlIdle ==
    /\ vl_hand = VlDefaults
    /\ vl_i = 0
    /\ vl_data = <<>>
    /\ the_pairs = <<>>
    /\ vl_offset = 0
    /\ total_len = 0
    /\ all_strings = <<>>
    /\ vl_store = NoDatasets

-----------------------------------------------------------------------------
(* Program constants of benchmarks/sparse.c *)

CHUNK_DIM1 == 10
CHUNK_DIM2 == 100
GROUP_NUM == 10
MAX_PERCENT == 20
UCHAR_MAX == 255

(* Bounds of the model *)

\* number of initial states of the random generator that are explored
NumSeeds == 2

-----------------------------------------------------------------------------
(* rand(): a deterministic generator whose algorithm the C library chooses. *)
(* Modelled as a multiplicative congruential generator with full period;    *)
(* the k-th call after state s returns Rand(s, k) and leaves the generator  *)
(* in state RandJump(s, k).                                                  *)

RAND_MODULUS == 32749
RAND_MULT == 17

RECURSIVE PowMod(_, _)
PowMod(a, k) ==
    IF k = 0 THEN 1
    ELSE LET h == PowMod(a, k \div 2)
             sq == (h * h) % RAND_MODULUS
         IN  IF k % 2 = 1 THEN (sq * a) % RAND_MODULUS ELSE sq

RandJump(s, k) == (s * PowMod(RAND_MULT, k)) % RAND_MODULUS

Rand(s, k) == RandJump(s, k) - 1

Seeds == {1 + 7919 * i : i \in 0..(NumSeeds - 1)}

-----------------------------------------------------------------------------
(* The store's dataspace operations, as the programs use them *)

\* the coordinates of one block: start[] and block[], count and stride NULL
BlockPoints(start, block) ==
    {<<r, c>> : r \in start[1]..(start[1] + block[1] - 1),
                c \in start[2]..(start[2] + block[2] - 1)}

\* H5Sselect_hyperslab(space, op, start, NULL, block, NULL)
H5Sselect_hyperslab(space, op, start, block) ==
    IF op = "SET" THEN BlockPoints(start, block)
    ELSE space \cup BlockPoints(start, block)

\* H5Screate_simple: a new dataspace selects its whole extent
H5Screate_simple(extent) == BlockPoints(<<0, 0>>, extent)

\* H5Sselect_none
H5Sselect_none == {}

\* H5Sget_select_npoints
H5Sget_select_npoints(space) == Cardinality(space)

\* row-major order of coordinates
RowMajorLess(p, q) == p[1] < q[1] \/ (p[1] = q[1] /\ p[2] < q[2])

\* position (1-based) of coordinate p in the row-major enumeration of space
RowMajorRank(space, p) == Cardinality({q \in space : RowMajorLess(q, p)}) + 1

\* whether every selected coordinate lies inside a dataset of extent extent
H5Sselect_valid(space, extent) ==
    \A p \in space : p[1] >= 0 /\ p[1] < extent[1] /\ p[2] >= 0 /\ p[2] < extent[2]

\* H5Dwrite(dset, type, mspace of Len(buf) elements, fspace, buf): the cells
\* written, as a function coordinate -> value; the empty function on failure
H5DwriteOk(fspace, extent, buf) ==
    Len(buf) = H5Sget_select_npoints(fspace) /\ H5Sselect_valid(fspace, extent)

H5Dwrite(fspace, extent, buf) ==
    IF H5DwriteOk(fspace, extent, buf)
    THEN [p \in fspace |-> buf[RowMajorRank(fspace, p)]]
    ELSE [p \in {} |-> 0]

-----------------------------------------------------------------------------
(* Integer square root: the largest r with r * r <= x, by bisection *)

RECURSIVE ISqrtBetween(_, _, _)
ISqrtBetween(x, lo, hi) ==
    IF lo >= hi THEN lo
    ELSE LET mid == (lo + hi + 1) \div 2
         IN  IF mid * mid <= x THEN ISqrtBetween(x, mid, hi)
             ELSE ISqrtBetween(x, lo, mid - 1)

ISqrt(x) == ISqrtBetween(x, 0, 46340)

-----------------------------------------------------------------------------
(* benchmarks/sparse.c: create_hyperslab *)

\* a variant of the extent that truncates the square root before it is scaled
RectExtentRootFirst(dim, select_percent) ==
    (dim * ISqrt(select_percent)) \div 10

\* (hsize_t)(dim * sqrt(select_percent) / 10): the double product truncated.
\* dim * sqrt(p) / 10 = sqrt(dim * dim * p) / 10, and truncation of the double
\* agrees with the exact value for every chunk dimension up to 40960 and every
\* percent in 1..100.
RectExtent(dim, select_percent) == ISqrt(dim * dim * select_percent) \div 10

\* uint64_t num_selections = hand.chunk_dim2 * select_percent / 100
NumSelections(h, select_percent) == (h.chunk_dim2 * select_percent) \div 100

\* a variant of sections that rounds 100 / select_percent up
SectionsRoundedUp(select_percent) ==
    (100 + select_percent - 1) \div select_percent

\* uint64_t sections = 100 / select_percent
Sections(select_percent) == 100 \div select_percent

\* H5S_SELECT_OR of the block at every start in starts: the union does not
\* depend on the order of the calls
SelectOrAll(space, starts, block) ==
    space \cup UNION {BlockPoints(start, block) : start \in starts}

\* a variant of the scattered topology that draws every column from the
\* first section of the row
ScatteredHyperslabOneSection(select_percent, space, h, s) ==
    LET num_selections == NumSelections(h, select_percent)
        sections == Sections(select_percent)
        iterations == (0..(h.chunk_dim1 - 1)) \X (0..(num_selections - 1))
        Offset(it) ==
            <<it[1], Rand(s, it[1] * num_selections + it[2] + 1) % sections>>
    IN  [space |-> IF iterations = {} THEN space
                   ELSE SelectOrAll(H5Sselect_none,
                                    {Offset(it) : it \in iterations}, <<1, 1>>),
         nelemts |-> Cardinality(iterations),
         offset |-> <<0, 0>>,
         block |-> <<1, 1>>,
         rng |-> RandJump(s, Cardinality(iterations))]

\* a variant of the scattered topology whose first call extends the selection
\* as every later call does
ScatteredHyperslabOrOnly(select_percent, space, h, s) ==
    LET num_selections == NumSelections(h, select_percent)
        sections == Sections(select_percent)
        iterations == (0..(h.chunk_dim1 - 1)) \X (0..(num_selections - 1))
        Offset(it) ==
            <<it[1], it[2] * sections
                     + (Rand(s, it[1] * num_selections + it[2] + 1) % sections)>>
        last == <<h.chunk_dim1 - 1, num_selections - 1>>
    IN  [space |-> SelectOrAll(space, {Offset(it) : it \in iterations},
                               <<1, 1>>),
         nelemts |-> Cardinality(iterations),
         offset |-> IF iterations = {} THEN <<0, 0>> ELSE Offset(last),
         block |-> <<1, 1>>,
         rng |-> RandJump(s, Cardinality(iterations))]

\* space_select == 1: one random point in each section of each row.  The
\* call for (i, j) = (0, 0) replaces the selection (H5S_SELECT_SET), every
\* later call extends it (H5S_SELECT_OR); with no iteration the selection
\* stays what it was.
ScatteredHyperslab(select_percent, space, h, s) ==
    LET num_selections == NumSelections(h, select_percent)
        sections == Sections(select_percent)
        iterations == (0..(h.chunk_dim1 - 1)) \X (0..(num_selections - 1))
        Offset(it) ==
            <<it[1], it[2] * sections
                     + (Rand(s, it[1] * num_selections + it[2] + 1) % sections)>>
        last == <<h.chunk_dim1 - 1, num_selections - 1>>
    IN  [space |-> IF iterations = {} THEN space
                   ELSE SelectOrAll(
                            H5Sselect_hyperslab(space, "SET",
                                                Offset(<<0, 0>>), <<1, 1>>),
                            {Offset(it) : it \in iterations \ {<<0, 0>>}},
                            <<1, 1>>),
         nelemts |-> Cardinality(iterations),
         offset |-> IF iterations = {} THEN <<0, 0>> ELSE Offset(last),
         block |-> <<1, 1>>,
         rng |-> RandJump(s, Cardinality(iterations))]

\* space_select == 2: one rectangle of the chunk's shape, its corner in the
\* upper-left quadrant
RectangularHyperslab(select_percent, space, h, s) ==
    LET offset == <<Rand(s, 1) % (h.chunk_dim1 \div 2),
                    Rand(s, 2) % (h.chunk_dim2 \div 2)>>
        block == <<RectExtent(h.chunk_dim1, select_percent),
                   RectExtent(h.chunk_dim2, select_percent)>>
    IN  [space |-> H5Sselect_hyperslab(space, "SET", offset, block),
         nelemts |-> block[1] * block[2],
         offset |-> offset, block |-> block,
         rng |-> RandJump(s, 2)]

\* a variant of the contiguous topology that draws the start of a run from
\* all the columns of the row
ContiguousHyperslabAnyStart(select_percent, space, h, s) ==
    LET block == <<1, (h.chunk_dim2 * select_percent) \div 100>>
        rows == 0..(h.chunk_dim1 - 1)
        Offset(i) == <<i, Rand(s, i + 1) % h.chunk_dim2>>
    IN  [space |-> SelectOrAll(H5Sselect_none, {Offset(i) : i \in rows}, block),
         nelemts |-> h.chunk_dim1 * block[2],
         offset |-> Offset(h.chunk_dim1 - 1),
         block |-> block,
         rng |-> RandJump(s, Cardinality(rows))]

\* space_select == 3: one run of fixed length in each row; row 0 replaces
\* the selection, every later row extends it
ContiguousHyperslab(select_percent, space, h, s) ==
    LET block == <<1, (h.chunk_dim2 * select_percent) \div 100>>
        rows == 0..(h.chunk_dim1 - 1)
        Offset(i) == <<i, Rand(s, i + 1) % (h.chunk_dim2 - block[2])>>
    IN  [space |-> IF rows = {} THEN space
                   ELSE SelectOrAll(
                            H5Sselect_hyperslab(space, "SET", Offset(0), block),
                            {Offset(i) : i \in rows \ {0}}, block),
         nelemts |-> h.chunk_dim1 * block[2],
         offset |-> IF rows = {} THEN <<0, 0>> ELSE Offset(h.chunk_dim1 - 1),
         block |-> block,
         rng |-> RandJump(s, Cardinality(rows))]

\* uint64_t create_hyperslab(int select_percent, hid_t *dataspace): the new
\* selection, the returned nelemts, the last offset[] and block[], and the
\* generator's state on return
create_hyperslab(select_percent, space, h, s) ==
    CASE h.space_select = 1 -> ScatteredHyperslab(select_percent, space, h, s)
      [] h.space_select = 2 -> RectangularHyperslab(select_percent, space, h, s)
      [] h.space_select = 3 -> ContiguousHyperslab(select_percent, space, h, s)
      [] OTHER -> [space |-> space, nelemts |-> 0, offset |-> <<0, 0>>,
                   block |-> <<1, 1>>, rng |-> s]

\* the coordinates of the blocks that the calls of H5Sselect_hyperslab in one
\* call of create_hyperslab are handed, whatever their operator
BlocksSelected(select_percent, h, s) ==
    LET num_selections == NumSelections(h, select_percent)
        sections == Sections(select_percent)
        run == <<1, (h.chunk_dim2 * select_percent) \div 100>>
    IN  CASE h.space_select = 1 ->
               {<<i, j * sections
                     + (Rand(s, i * num_selections + j + 1) % sections)>> :
                    i \in 0..(h.chunk_dim1 - 1), j \in 0..(num_selections - 1)}
          [] h.space_select = 2 ->
               BlockPoints(<<Rand(s, 1) % (h.chunk_dim1 \div 2),
                             Rand(s, 2) % (h.chunk_dim2 \div 2)>>,
                           <<RectExtent(h.chunk_dim1, select_percent),
                             RectExtent(h.chunk_dim2, select_percent)>>)
          [] h.space_select = 3 ->
               UNION {BlockPoints(<<i, Rand(s, i + 1) % (h.chunk_dim2 - run[2])>>,
                                  run) : i \in 0..(h.chunk_dim1 - 1)}
          [] OTHER -> {}

-----------------------------------------------------------------------------
(* benchmarks/sparse.c: parse_command_line and main *)

\* the chunk as the dense dataset stores it: row-major bytes, 0 where no
\* element was written
DenseBytes(cells, extent) ==
    [k \in 1..(extent[1] * extent[2]) |->
        LET p == <<(k - 1) \div extent[2], (k - 1) % extent[2]>>
        IN  IF p \in DOMAIN cells THEN cells[p] ELSE 0]

\* H5Dget_chunk_storage_size of a chunk written without a filter
RawSize(bytes) == Len(bytes)

\* H5Dget_chunk_storage_size of a chunk written through the deflate filter:
\* the codec is the store's; its output is sized here as one (count, byte)
\* pair for each run of equal bytes
DeflateSize(bytes) ==
    2 * Cardinality({k \in 1..Len(bytes) : k = 1 \/ bytes[k] # bytes[k - 1]})

\* H5Sencode: the selection as the row-major list of its maximal row spans
\* <<row, first column, last column>>
SortedCols(cols) ==
    [k \in 1..Cardinality(cols) |->
        CHOOSE c \in cols : Cardinality({c2 \in cols : c2 < c}) = k - 1]

\* the spans of one row, cols being the row's selected columns
RowSpans(r, cols, starts) ==
    [k \in 1..Len(starts) |->
        <<r, starts[k],
          CHOOSE c \in cols :
              /\ c >= starts[k]
              /\ (c + 1) \notin cols
              /\ \A c2 \in starts[k]..c : c2 \in cols>>]

RowCols(space, r) == {p[2] : p \in {q \in space : q[1] = r}}

RECURSIVE EncodeRows(_, _, _)
EncodeRows(space, r, last) ==
    IF r > last THEN <<>>
    ELSE RowSpans(r, RowCols(space, r),
                  SortedCols({c \in RowCols(space, r) :
                                  (c - 1) \notin RowCols(space, r)}))
         \o EncodeRows(space, r + 1, last)

H5Sencode(space) ==
    IF space = {} THEN <<>>
    ELSE EncodeRows(space,
                    CHOOSE r \in {p[1] : p \in space} :
                        \A p \in space : r <= p[1],
                    CHOOSE r \in {p[1] : p \in space} :
                        \A p \in space : r >= p[1])

\* bytes of an encoded selection: a header and three 8-byte numbers a span
ENCODE_HEADER == 16

EncodedSize(enc) == ENCODE_HEADER + 24 * Len(enc)

\* the values of the defined elements, lines 633-639
GenerateData(h, count, s) ==
    [i \in 1..count |->
        IF h.d # 0 THEN (Rand(s, i) % UCHAR_MAX) + 1
        ELSE i % UCHAR_MAX]

\* st is a global: its members are 0 until they are assigned
UnsetStorage ==
    [sparse |-> 0, sparse_comp |-> 0, data |-> 0, data_comp |-> 0,
     sel |-> 0, sel_comp |-> 0]

\* the members of storage_t
StorageMembers ==
    {"sparse", "sparse_comp", "data", "data_comp", "sel", "sel_comp"}

NeverAssigned ==
    [i \in 0..(MAX_PERCENT - 1) |-> [f \in StorageMembers |-> 0]]

\* the assignments st[index].f = chunk_bytes for the members f in members
Assigned(index, members) ==
    [st_assigned EXCEPT
        ![index] = [f \in StorageMembers |->
                       IF f \in members THEN @[f] + 1 ELSE @[f]]]

NoGroup == [open |-> FALSE, dsets |-> {}]

ChunkDims == <<hand.chunk_dim1, hand.chunk_dim2>>

\* the options tried on the command line: every topology and value policy
\* with the smallest and the largest accepted maximum, and the defaults with
\* one option just outside its accepted range
DefaultOptions ==
    [chunk_dim1 |-> CHUNK_DIM1, chunk_dim2 |-> CHUNK_DIM2, space_select |-> 1,
     max_percent |-> GROUP_NUM, d |-> 1, v |-> 0]

AcceptedOptions ==
    [chunk_dim1 : {CHUNK_DIM1}, chunk_dim2 : {CHUNK_DIM2},
     space_select : 1..3, max_percent : {1, MAX_PERCENT}, d : {0, 1}, v : {0}]
    \cup {[DefaultOptions EXCEPT !.v = 1, !.max_percent = 2]}

RejectedOptions ==
    {[DefaultOptions EXCEPT !.max_percent = m] : m \in {0, MAX_PERCENT + 1}}
    \cup {[DefaultOptions EXCEPT !.space_select = x] : x \in {0, 4}}
    \cup {[DefaultOptions EXCEPT !.d = x] : x \in {-1, 2}}
    \cup {[DefaultOptions EXCEPT !.v = x] : x \in {-1, 2}}

SweepIdle ==
    /\ hand = DefaultOptions
    /\ n = 0
    /\ dataspace = {}
    /\ nelemts = 0
    /\ hs = [offset |-> <<0, 0>>, block |-> <<1, 1>>]
    /\ data = <<>>
    /\ group = NoGroup
    /\ st = [i \in 0..(MAX_PERCENT - 1) |-> UnsetStorage]
    /\ st_assigned = NeverAssigned

\* the state when main is entered: hand holds what the options set
InitSweep ==
    /\ prog = "sparse"
    /\ pc = "parse"
    /\ rng \in Seeds
    /\ hand \in AcceptedOptions \cup RejectedOptions
    /\ n = 0
    /\ dataspace = {}
    /\ nelemts = 0
    /\ hs = [offset |-> <<0, 0>>, block |-> <<1, 1>>]
    /\ data = <<>>
    /\ group = NoGroup
    /\ st = [i \in 0..(MAX_PERCENT - 1) |-> UnsetStorage]
    /\ st_assigned = NeverAssigned
    /\ MmIdle
    /\ FrameIdle
    /\ VlIdle
    /\ RgIdle
    /\ MemIdle
    /\ LiveIdle
    /\ GenIdle

\* parse_command_line's checks, lines 262-281
OptionsValid(h) ==
    /\ ~(h.max_percent < 1 \/ h.max_percent > 20)
    /\ ~(h.space_select < 1 \/ h.space_select > 3)
    /\ ~(h.d < 0 \/ h.d > 1)
    /\ ~(h.v < 0 \/ h.v > 1)

\* parse_command_line rejects the options: exit(1)
SweepReject ==
    /\ prog = "sparse" /\ pc = "parse"
    /\ ~OptionsValid(hand)
    /\ pc' = "exit1"
    /\ UNCHANGED <<prog, rng, sweepVars, nonSweepVars>>

\* main, lines 598-619: the file, the creation property list and the
\* chunk-sized dataspace are created
SweepSetup ==
    /\ prog = "sparse" /\ pc = "parse"
    /\ OptionsValid(hand)
    /\ dataspace' = H5Screate_simple(ChunkDims)
    /\ n' = 0
    /\ pc' = "level"
    /\ UNCHANGED <<prog, rng, hand, nelemts, hs, data, group, st, st_assigned, nonSweepVars>>

\* main, lines 621-628: the group is created and the selection generated
SweepCreateHyperslab ==
    /\ prog = "sparse" /\ pc = "level"
    /\ n < hand.max_percent
    /\ LET res == create_hyperslab(n + 1, dataspace, hand, rng)
       IN  /\ dataspace' = res.space
           /\ nelemts' = res.nelemts
           /\ hs' = [offset |-> res.offset, block |-> res.block]
           /\ rng' = res.rng
    /\ group' = [open |-> TRUE, dsets |-> {}]
    /\ pc' = "generate"
    /\ generated' = BlocksSelected(n + 1, hand, rng)
    /\ live' = Acquire(live, {"group"})
    /\ UNCHANGED <<prog, hand, n, data, st, st_assigned, mmVars, frameVars,
                   vlVars, rgVars, memVars>>

\* main, lines 630-639: the value buffer is allocated and filled
SweepGenerateData ==
    /\ prog = "sparse" /\ pc = "generate"
    /\ data' = GenerateData(hand, nelemts, rng)
    /\ rng' = IF hand.d # 0 THEN RandJump(rng, nelemts) ELSE rng
    /\ pc' = "hdf5_dsets"
    /\ live' = Acquire(live, {"data"})
    /\ UNCHANGED <<prog, hand, n, dataspace, nelemts, hs, group, st, st_assigned, besideSweep>>

\* create_hdf5_dsets, lines 458-501
SweepCreateHdf5Dsets ==
    /\ prog = "sparse" /\ pc = "hdf5_dsets"
    /\ LET cells == H5Dwrite(dataspace, ChunkDims, data)
           bytes == IF H5DwriteOk(dataspace, ChunkDims, data)
                    THEN DenseBytes(cells, ChunkDims) ELSE <<>>
       IN  /\ group' = [group EXCEPT !.dsets = @ \cup {"sparse", "sparse_comp"}]
           /\ st' = [st EXCEPT ![n].sparse = RawSize(bytes),
                               ![n].sparse_comp = DeflateSize(bytes)]
           /\ st_assigned' = Assigned(n, {"sparse", "sparse_comp"})
    /\ pc' = "encoded_dspace"
    /\ live' = Release(Acquire(live, {"hdf5_dset", "dcpl_compressed",
                                      "hdf5_dset_compressed", "mem_space"}),
                       {"mem_space", "hdf5_dset", "hdf5_dset_compressed",
                        "dcpl_compressed"})
    /\ UNCHANGED <<prog, rng, hand, n, dataspace, nelemts, hs, data, besideSweep>>

\* a variant of create_encoded_dspace that stores the two sizes into the
\* members of the dense dataset
SweepCreateEncodedDspaceDenseMembers ==
    /\ prog = "sparse" /\ pc = "encoded_dspace"
    /\ LET nalloc == EncodedSize(H5Sencode(dataspace))
       IN  /\ group' = [group EXCEPT
                           !.dsets = @ \cup {"selection", "selection_comp"}]
           /\ st' = [st EXCEPT ![n].sparse = nalloc,
                               ![n].sparse_comp = nalloc - (nalloc \div 4)]
           /\ st_assigned' = Assigned(n, {"sparse", "sparse_comp"})
    /\ pc' = "structured_dsets"
    /\ live' = Release(Acquire(live, {"buf", "dcpl", "dspace", "dset",
                                      "dset_compressed"}),
                       {"dset", "dset_compressed", "dcpl", "dspace", "buf"})
    /\ UNCHANGED <<prog, rng, hand, n, dataspace, nelemts, hs, data, besideSweep>>

\* create_encoded_dspace, lines 345-400
SweepCreateEncodedDspace ==
    /\ prog = "sparse" /\ pc = "encoded_dspace"
    /\ LET nalloc == EncodedSize(H5Sencode(dataspace))
       IN  /\ group' = [group EXCEPT
                           !.dsets = @ \cup {"selection", "selection_comp"}]
           /\ st' = [st EXCEPT ![n].sel = nalloc,
                               ![n].sel_comp = nalloc - (nalloc \div 4)]
           /\ st_assigned' = Assigned(n, {"sel", "sel_comp"})
    /\ pc' = "structured_dsets"
    /\ live' = Release(Acquire(live, {"buf", "dcpl", "dspace", "dset",
                                      "dset_compressed"}),
                       {"dset", "dset_compressed", "dcpl", "dspace", "buf"})
    /\ UNCHANGED <<prog, rng, hand, n, dataspace, nelemts, hs, data, besideSweep>>

\* create_structured_dsets, lines 407-452
SweepCreateStructuredDsets ==
    /\ prog = "sparse" /\ pc = "structured_dsets"
    /\ group' = [group EXCEPT !.dsets = @ \cup {"data", "data_comp"}]
    /\ st' = [st EXCEPT ![n].data = RawSize(data),
                        ![n].data_comp = DeflateSize(data)]
    /\ st_assigned' = Assigned(n, {"data", "data_comp"})
    /\ pc' = "end_level"
    /\ live' = Release(Acquire(live, {"dcpl", "structured dataspace", "dset",
                                      "dset_compressed"}),
                       {"dset", "dset_compressed", "dcpl"})
    /\ UNCHANGED <<prog, rng, hand, n, dataspace, nelemts, hs, data, besideSweep>>

\* main, lines 650-656: the selection is reset, the buffer freed, the group
\* closed
SweepEndLevel ==
    /\ prog = "sparse" /\ pc = "end_level"
    /\ dataspace' = H5Sselect_none
    /\ data' = <<>>
    /\ group' = NoGroup
    /\ n' = n + 1
    /\ pc' = "level"
    /\ live' = Release(live, {"data", "group"})
    /\ UNCHANGED <<prog, rng, hand, nelemts, hs, st, st_assigned, besideSweep>>

\* main, lines 658-668: resources closed, print_results(hand.max_percent)
SweepFinish ==
    /\ prog = "sparse" /\ pc = "level"
    /\ ~(n < hand.max_percent)
    /\ pc' = "exit0"
    /\ UNCHANGED <<prog, rng, sweepVars, nonSweepVars>>

NextSweep ==
    \/ SweepReject
    \/ SweepSetup
    \/ SweepCreateHyperslab
    \/ SweepGenerateData
    \/ SweepCreateHdf5Dsets
    \/ SweepCreateEncodedDspace
    \/ SweepCreateStructuredDsets
    \/ SweepEndLevel
    \/ SweepFinish

SpecSweep == InitSweep /\ [][NextSweep]_vars

-----------------------------------------------------------------------------
(* benchmarks/mm2h5.c: the input file *)

MAX_LINE_LEN == 256
VERIFY_POINTS == 10
VERIFY_ALL_LIMIT == 10000

\* unsigned long long arithmetic wraps modulo 2^64; the model wraps modulo
\* ULL_MODULUS, which stands for it: every number of the inputs is far below
ULL_MODULUS == 1073741824

\* a[i]--, b[i]--
Decrement(x) == (x - 1) % ULL_MODULUS

\* A line of the input: whether it is skipped as a comment (blank, or
\* starting with '%'), and else the unsigned integers, at most three, that
\* sscanf("%llu %llu %llu") converts from it.
Comment == [comment |-> TRUE, nums |-> <<>>]

Line(nums) == [comment |-> FALSE, nums |-> nums]

Triplet(x, y, z) == Line(<<x, y, z>>)

\* sscanf(...) == 3
IsTriplet(line) == ~line.comment /\ Len(line.nums) = 3

\* indices from..Len(text) of the lines sscanf converts in full
TripletsFrom(text, from) == {i \in from..Len(text) : IsTriplet(text[i])}

Min(S) == CHOOSE x \in S : \A y \in S : x <= y

\* a variant of read_next_group that leaves the line that ends the group
\* consumed (no fseek)
read_next_groupNoSeekBack(text, pos) ==
    LET found == TripletsFrom(text, pos)
    IN  IF found = {}
        THEN [count |-> 0, a |-> <<>>, b |-> <<>>, c |-> <<>>,
              fpos |-> Len(text) + 1]
        ELSE LET first == Min(found)
                 current_y == text[first].nums[2]
                 other == {i \in TripletsFrom(text, first + 1) :
                               text[i].nums[2] # current_y}
                 stop == IF other = {} THEN Len(text) + 1 ELSE Min(other)
                 members == SelectSeq(SubSeq(text, first, stop - 1), IsTriplet)
             IN  [count |-> Len(members),
                  a |-> [i \in 1..Len(members) |-> members[i].nums[1]],
                  b |-> [i \in 1..Len(members) |-> members[i].nums[2]],
                  c |-> [i \in 1..Len(members) |-> members[i].nums[3]],
                  fpos |-> IF other = {} THEN stop ELSE stop + 1]

\* read_next_group, lines 45-119, on the lines of the file from line pos on:
\* the group's a, b and c, its count (0: no group) and the file position left.
\* The line that ends the group is pushed back with fseek.
read_next_group(text, pos) ==
    LET found == TripletsFrom(text, pos)
    IN  IF found = {}
        THEN [count |-> 0, a |-> <<>>, b |-> <<>>, c |-> <<>>,
              fpos |-> Len(text) + 1]
        ELSE LET first == Min(found)
                 current_y == text[first].nums[2]
                 other == {i \in TripletsFrom(text, first + 1) :
                               text[i].nums[2] # current_y}
                 stop == IF other = {} THEN Len(text) + 1 ELSE Min(other)
                 members == SelectSeq(SubSeq(text, first, stop - 1), IsTriplet)
             IN  [count |-> Len(members),
                  a |-> [i \in 1..Len(members) |-> members[i].nums[1]],
                  b |-> [i \in 1..Len(members) |-> members[i].nums[2]],
                  c |-> [i \in 1..Len(members) |-> members[i].nums[3]],
                  fpos |-> stop]

\* main, lines 156-166: X and Y after the scan for the first valid triplet.
\* sscanf stores each number it converts before it fails, so a line with
\* fewer than three numbers overwrites X (and Y) and the scan goes on.
RECURSIVE ScanHeader(_, _, _, _)
ScanHeader(text, i, X0, Y0) ==
    IF i > Len(text) THEN [X |-> X0, Y |-> Y0, fpos |-> i]
    ELSE IF text[i].comment THEN ScanHeader(text, i + 1, X0, Y0)
    ELSE LET X1 == IF Len(text[i].nums) >= 1 THEN text[i].nums[1] ELSE X0
             Y1 == IF Len(text[i].nums) >= 2 THEN text[i].nums[2] ELSE Y0
         IN  IF IsTriplet(text[i]) THEN [X |-> X1, Y |-> Y1, fpos |-> i + 1]
             ELSE ScanHeader(text, i + 1, X1, Y1)

-----------------------------------------------------------------------------
(* benchmarks/mm2h5.c: main *)

\* longest run of data lines after the header of a small input file
MaxDataLines == 3

\* the 1-based rows, the columns and the values of the small input files
Rows == {1, 2}
Cols == {1, 2}
Values == {1, 2}

\* a variant of the group's selection in which every 1 x 1 block replaces the
\* selection (H5S_SELECT_SET)
GroupSelectionReplacing(a, b) ==
    IF Len(a) = 0 THEN H5Sselect_none
    ELSE H5Sselect_hyperslab(H5Sselect_none, "SET",
                             <<a[Len(a)], b[Len(a)]>>, <<1, 1>>)

\* lines 226-232: H5Sselect_none, then H5S_SELECT_OR of the 1 x 1 block at
\* every (a[i], b[i])
GroupSelection(a, b) ==
    SelectOrAll(H5Sselect_none, {<<a[i], b[i]>> : i \in 1..Len(a)}, <<1, 1>>)

\* H5Dread of the one cell at coordinate p into value, which starts as 0: an
\* unwritten cell holds the fill value 0, a read outside the dataset fails
\* and leaves value as it was
ReadCell(cells, extent, p) ==
    IF H5Sselect_valid({p}, extent) /\ p \in DOMAIN cells THEN cells[p] ELSE 0

\* the dataset after cells were written over it
Overwrite(cells, new) ==
    [p \in (DOMAIN cells) \cup (DOMAIN new) |->
        IF p \in DOMAIN new THEN new[p] ELSE cells[p]]

\* line 216: the capacity of points after the growth for a group of count
\* triplets
GrownCapacity(cap, total, count) ==
    IF total + count > cap
    THEN (IF cap = 0 THEN count * 2 ELSE cap * 2)
    ELSE cap

\* a variant of the verifier that samples from VERIFY_ALL_LIMIT points on
VerifyIndicesSampleAtLimit(total_points, s) ==
    IF total_points < VERIFY_ALL_LIMIT
    THEN [i \in 1..total_points |-> i - 1]
    ELSE [i \in 1..VERIFY_POINTS |-> Rand(s, i) % total_points]

\* lines 258-299: the indices checked, all of them up to VERIFY_ALL_LIMIT
\* points and VERIFY_POINTS random ones above
VerifyIndices(total_points, s) ==
    IF total_points <= VERIFY_ALL_LIMIT
    THEN [i \in 1..total_points |-> i - 1]
    ELSE [i \in 1..VERIFY_POINTS |-> Rand(s, i) % total_points]

\* size_t check_count, line 258
CheckCount(total_points) ==
    IF total_points <= VERIFY_ALL_LIMIT THEN total_points ELSE VERIFY_POINTS

\* the data lines of the small inputs: triplets, one of them with row 0, a
\* comment and a line of two numbers
DataTriplets ==
    {Triplet(x, y, z) : x \in Rows, y \in Cols, z \in Values}
    \cup {Triplet(0, 1, 1)}

DataLines == DataTriplets \cup {Comment, Line(<<1, 1>>)}

RECURSIVE SeqsUpTo(_, _)
SeqsUpTo(S, len) ==
    IF len = 0 THEN {<<>>}
    ELSE LET shorter == SeqsUpTo(S, len - 1)
         IN  shorter \cup {Append(q, x) : q \in {t \in shorter : Len(t) = len - 1},
                                          x \in S}

\* what may stand before the header: nothing, a comment, or a line that holds
\* fewer than three numbers
Preludes == {<<>>, <<Comment>>, <<Line(<<>>)>>, <<Line(<<2>>)>>,
             <<Line(<<2, 2>>)>>, <<Line(<<0, 2>>)>>}

\* headers: X x Y with X and Y positive, and with X or Y zero
FullHeader == Triplet(2, 2, 0)

Headers == {FullHeader, Triplet(1, 2, 7), Triplet(0, 2, 1), Triplet(2, 0, 1)}

\* two groups, of 1 and of 10 triplets
GrowthFile ==
    <<Triplet(10, 2, 0), Triplet(1, 1, 5)>>
    \o [i \in 1..10 |-> Triplet(i, 2, i)]

\* a group that repeats a coordinate
DedupFile ==
    <<Triplet(2, 5, 3), Triplet(0, 5, 9), Triplet(0, 5, 9), Triplet(1, 5, 3)>>

\* the first count entries, column by column, of a matrix of 100 x 101 under
\* its header: groups of 100 triplets
MatrixFile(count) ==
    <<Triplet(100, 101, count)>>
    \o [i \in 1..count |->
           Triplet(((i - 1) % 100) + 1, ((i - 1) \div 100) + 1, (i % 250) + 1)]

InputFiles ==
    {<<FullHeader>> \o d : d \in SeqsUpTo(DataLines, MaxDataLines)}
    \cup {pre \o <<h>> \o d : pre \in Preludes, h \in Headers,
                              d \in SeqsUpTo(DataLines, 1)}
    \cup {<<Triplet(1, 2, 7)>> \o d : d \in SeqsUpTo(DataLines, 2)}
    \cup Preludes
    \cup {GrowthFile, DedupFile}
    \cup {MatrixFile(count) : count \in {0, 1, 100, 101, 250, 450}}

InitMm ==
    /\ prog = "mm2h5"
    /\ pc = "args"
    /\ rng = 1
    /\ lines \in InputFiles
    /\ gzip_level \in {-1, 0, 6, 9, 10}
    /\ (gzip_level # 6 => lines = DedupFile)
    /\ fpos = 1
    /\ dims = <<0, 0>>
    /\ h5 = "none"
    /\ dset = [p \in {} |-> 0]
    /\ points = <<>>
    /\ cap_points = 0
    /\ group_count = 0
    /\ overflow = FALSE
    /\ grp = NoGroupRead
    /\ verify = NotVerified
    /\ SweepIdle
    /\ FrameIdle
    /\ VlIdle
    /\ RgIdle
    /\ MemIdle
    /\ LiveIdle
    /\ GenIdle

\* main, lines 137-140: the compression level is out of range
MmRejectLevel ==
    /\ prog = "mm2h5" /\ pc = "args"
    /\ (gzip_level < 0 \/ gzip_level > 9)
    /\ pc' = "exit_failure"
    /\ UNCHANGED <<prog, rng, mmVars, nonMmVars>>

\* a variant of main that creates the output file before it checks the
\* dimensions of the header
MmReadHeaderCreatesFirst ==
    /\ prog = "mm2h5" /\ pc = "args"
    /\ ~(gzip_level < 0 \/ gzip_level > 9)
    /\ LET hdr == ScanHeader(lines, 1, 0, 0)
       IN  /\ dims' = <<hdr.X, hdr.Y>>
           /\ h5' = "open"
           /\ IF hdr.X = 0 \/ hdr.Y = 0
              THEN /\ pc' = "exit_failure"
                   /\ lines' = <<>>
                   /\ fpos' = 1
              ELSE /\ pc' = "groups"
                   /\ lines' = lines
                   /\ fpos' = hdr.fpos
    /\ UNCHANGED <<prog, rng, gzip_level, dset, points, cap_points,
                   group_count, overflow, grp, verify, nonMmVars>>

\* main, lines 156-198: the header is read and checked, then the file and the
\* dataset are created
MmReadHeader ==
    /\ prog = "mm2h5" /\ pc = "args"
    /\ ~(gzip_level < 0 \/ gzip_level > 9)
    /\ LET hdr == ScanHeader(lines, 1, 0, 0)
       IN  /\ dims' = <<hdr.X, hdr.Y>>
           /\ IF hdr.X = 0 \/ hdr.Y = 0
              THEN /\ pc' = "exit_failure"
                   /\ lines' = <<>>
                   /\ fpos' = 1
                   /\ h5' = h5
              ELSE /\ pc' = "groups"
                   /\ lines' = lines
                   /\ fpos' = hdr.fpos
                   /\ h5' = "open"
    /\ UNCHANGED <<prog, rng, gzip_level, dset, points, cap_points,
                   group_count, overflow, grp, verify, nonMmVars>>

\* lines 212-243 for the group g that read_next_group returned, with its
\* coordinates a and b converted to 0-based.  The return values of
\* H5Sselect_hyperslab and H5Dwrite are not looked at.
StoreGroup(g, a, b, cap, dspace) ==
    /\ fpos' = g.fpos
    /\ group_count' = group_count + 1
    /\ cap_points' = cap
    /\ overflow' = (overflow \/ Len(points) + g.count > cap)
    /\ points' = points \o [i \in 1..g.count |-> <<a[i], b[i], g.c[i]>>]
    /\ dset' = Overwrite(dset, H5Dwrite(dspace, dims, g.c))
    /\ grp' = [count |-> g.count, a |-> a, b |-> b, c |-> g.c,
               dspace |-> dspace,
               written |-> H5DwriteOk(dspace, dims, g.c)]
    /\ pc' = "groups"

\* line 212: a[i]--, b[i]--
DecrementAll(q) == [i \in 1..Len(q) |-> Decrement(q[i])]

ConvertGroup(g, a, b) ==
    StoreGroup(g, a, b, GrownCapacity(cap_points, Len(points), g.count),
               GroupSelection(a, b))

ReadGroup(g) ==
    /\ g.count > 0
    /\ ConvertGroup(g, DecrementAll(g.a), DecrementAll(g.b))

\* the loop body of lines 210-243 for the next group of the file
MmGroup ==
    /\ prog = "mm2h5" /\ pc = "groups"
    /\ ReadGroup(read_next_group(lines, fpos))
    /\ live' = Release(Acquire(live, {"a", "b", "c", "dspace", "mspace"}),
                       {"mspace", "dspace", "a", "b", "c"})
    /\ UNCHANGED <<prog, rng, lines, gzip_level, dims, h5, verify, besideMm>>

\* lines 219-224 stored points past the end of the points array: undefined
\* behaviour, after which the run goes on as if there had been room or, at
\* any later step, is killed
MmCrash ==
    /\ prog = "mm2h5" /\ pc \in {"groups", "verify", "report"}
    /\ overflow
    /\ pc' = "crashed"
    /\ UNCHANGED <<prog, rng, mmVars, nonMmVars>>

\* lines 210 and 245-249: read_next_group returns 0, the file is closed and
\* reported as written
MmClose ==
    /\ prog = "mm2h5" /\ pc = "groups"
    /\ read_next_group(lines, fpos).count = 0
    /\ lines' = <<>>
    /\ fpos' = 1
    /\ grp' = NoGroupRead
    /\ h5' = "closed"
    /\ pc' = "verify"
    /\ UNCHANGED <<prog, rng, gzip_level, dims, dset, points, cap_points,
                   group_count, overflow, verify, nonMmVars>>

\* the mismatches among the points at the indices checked
Mismatches(checked, pts, cells, extent) ==
    Cardinality({k \in 1..Len(checked) :
        ReadCell(cells, extent,
                 <<pts[checked[k] + 1][1], pts[checked[k] + 1][2]>>)
            # pts[checked[k] + 1][3]})

\* a variant of the verifier that returns EXIT_FAILURE when a point
\* mismatches
MmVerifyFatal ==
    /\ prog = "mm2h5" /\ pc = "verify"
    /\ \E seed \in Seeds :
        LET checked == VerifyIndices(Len(points), seed)
        IN  /\ rng' = seed
            /\ verify' = [check_count |-> CheckCount(Len(points)),
                          mismatches |-> Mismatches(checked, points, dset, dims),
                          checked |-> checked]
    /\ pc' = (IF verify'.mismatches > 0 THEN "exit_failure" ELSE "report")
    /\ UNCHANGED <<prog, lines, gzip_level, fpos, dims, h5, dset, points,
                   cap_points, group_count, overflow, grp, nonMmVars>>

\* lines 251-303: srand(time(NULL)), the file is opened again and the points
\* are checked
MmVerify ==
    /\ prog = "mm2h5" /\ pc = "verify"
    /\ \E seed \in Seeds :
        LET checked == VerifyIndices(Len(points), seed)
        IN  /\ rng' = (IF Len(points) <= VERIFY_ALL_LIMIT THEN seed
                       ELSE RandJump(seed, VERIFY_POINTS))
            /\ verify' = [check_count |-> CheckCount(Len(points)),
                          mismatches |-> Mismatches(checked, points, dset, dims),
                          checked |-> checked]
    /\ pc' = "report"
    /\ UNCHANGED <<prog, lines, gzip_level, fpos, dims, h5, dset, points,
                   cap_points, group_count, overflow, grp, nonMmVars>>

\* lines 305-312: the summary is printed and main returns EXIT_SUCCESS
MmReport ==
    /\ prog = "mm2h5" /\ pc = "report"
    /\ pc' = "exit_success"
    /\ UNCHANGED <<prog, rng, mmVars, nonMmVars>>

NextMm ==
    \/ MmRejectLevel
    \/ MmReadHeader
    \/ MmGroup
    \/ MmCrash
    \/ MmClose
    \/ MmVerify
    \/ MmReport

SpecMm == InitMm /\ [][NextMm]_vars

-----------------------------------------------------------------------------
(* benchmarks/mm2h5.c: the verification on its own, entered with the points *)
(* of a matrix file                                                          *)

\* largest of the small numbers of points verified
MaxVerifySmall == 30

\* cap_points after the groups of a matrix file of count points
RECURSIVE MatrixCapacity(_, _)
MatrixCapacity(count, cap) ==
    IF count <= cap THEN cap ELSE MatrixCapacity(count, cap * 2)

\* the state in which main reaches line 251 for MatrixFile(count)
MatrixIngested(count) ==
    /\ lines = <<>>
    /\ gzip_level = 6
    /\ fpos = 1
    /\ dims = <<100, 101>>
    /\ h5 = "closed"
    /\ dset = [p \in {<<(i - 1) % 100, (i - 1) \div 100>> : i \in 1..count} |->
                  ((p[2] * 100 + p[1] + 1) % 250) + 1]
    /\ points = [i \in 1..count |->
                    <<(i - 1) % 100, (i - 1) \div 100, (i % 250) + 1>>]
    /\ cap_points = (IF count <= 100 THEN 2 * count
                     ELSE MatrixCapacity(count, 200))
    /\ group_count = (count + 99) \div 100
    /\ overflow = FALSE
    /\ grp = NoGroupRead
    /\ verify = NotVerified

\* the numbers of points verified: small ones and those around
\* VERIFY_ALL_LIMIT
VerifySizes ==
    (0..MaxVerifySmall)
    \cup ((VERIFY_ALL_LIMIT - 1)..(VERIFY_ALL_LIMIT + 2))

InitVerify ==
    /\ prog = "mm2h5"
    /\ pc = "verify"
    /\ rng = 1
    /\ \E count \in VerifySizes : MatrixIngested(count)
    /\ SweepIdle
    /\ FrameIdle
    /\ VlIdle
    /\ RgIdle
    /\ MemIdle
    /\ LiveIdle
    /\ GenIdle

NextVerify ==
    \/ MmVerify
    \/ MmReport

SpecVerify == InitVerify /\ [][NextVerify]_vars

\* under SpecMm: a matrix file is ingested into the state that SpecVerify
\* starts from
MatrixFileIngested ==
    (prog = "mm2h5" /\ pc = "verify" /\ dims = <<100, 101>>)
        => MatrixIngested(Len(points))

\* a matrix file of 450 points has been ingested
MatrixFileIngestedWitness ==
    prog = "mm2h5" /\ pc = "verify" /\ dims = <<100, 101>> /\ Len(points) = 450
-----------------------------------------------------------------------------
(* Properties of the triplet ingester, checked under SpecMm and SpecVerify *)

\* the group last handed to the store has pairwise distinct coordinates
GroupDistinct ==
    \A i, j \in 1..grp.count :
        (grp.a[i] = grp.a[j] /\ grp.b[i] = grp.b[j]) => i = j

\* the number of different coordinates among the first k triplets of the
\* group last handed to the store
DistinctUpTo(k) ==
    Cardinality({i \in 1..k :
        \A j \in 1..(i - 1) : grp.a[j] # grp.a[i] \/ grp.b[j] # grp.b[i]})

\* C2: ingestion round-trip.  After every group with pairwise distinct
\* coordinates that the store accepted, whatever the order of its triplets in
\* the input, the cell at the 0-based coordinate of each triplet (a, b, c)
\* reads back as c.
C2_RoundTrip ==
    (prog = "mm2h5" /\ grp.count > 0 /\ GroupDistinct /\ grp.written)
        => \A i \in 1..grp.count :
               ReadCell(dset, dims, <<grp.a[i], grp.b[i]>>) = grp.c[i]

\* C3: for every group handed to the store, the number of values written
\* (the size n of the memory dataspace) is the number of points of the
\* group's union selection, repeated coordinates included.
C3_ValuesMatchSelection ==
    (prog = "mm2h5" /\ grp.count > 0)
        => grp.count = H5Sget_select_npoints(grp.dspace)

\* C4: union dedup.  The selection built for a group is the set of the
\* group's coordinates, it has as many points as the group has different
\* coordinates, and adding any of the group's coordinates once more leaves it
\* as it is.
C4_UnionDedup ==
    (prog = "mm2h5" /\ grp.count > 0)
        => /\ grp.dspace = {<<grp.a[i], grp.b[i]>> : i \in 1..grp.count}
           /\ H5Sget_select_npoints(grp.dspace) = DistinctUpTo(grp.count)
           /\ \A i \in 1..grp.count :
                  H5Sselect_hyperslab(grp.dspace, "OR",
                                      <<grp.a[i], grp.b[i]>>, <<1, 1>>)
                      = grp.dspace

\* the example of C4: the triplets (0,5,9), (0,5,9), (1,5,3) form one group
\* whose selection has exactly 2 points
C4_Witness ==
    /\ prog = "mm2h5"
    /\ grp.count = 3
    /\ grp.c = <<9, 9, 3>>
    /\ grp.a[1] = grp.a[2] /\ grp.b[1] = grp.b[2]
    /\ H5Sget_select_npoints(grp.dspace) = 2

\* the first line of the file that sscanf converts in full, 0 if none
FirstTriplet ==
    IF TripletsFrom(lines, 1) = {} THEN 0 ELSE Min(TripletsFrom(lines, 1))

\* the input has no valid triplet, or its first valid triplet has X = 0 or
\* Y = 0
HeaderInvalid ==
    \/ FirstTriplet = 0
    \/ lines[FirstTriplet].nums[1] = 0
    \/ lines[FirstTriplet].nums[2] = 0

\* C5: header validation.  When the first valid triplet of the input has
\* X = 0 or Y = 0, or the input has no valid triplet, the run ends with the
\* failure status, no output file is created and no group is written.
C5_InvalidHeaderFails ==
    [][(prog = "mm2h5" /\ pc = "args" /\ HeaderInvalid)
          => (pc' = "exit_failure" /\ h5' = "none" /\ group_count' = 0)]_vars

\* C6: verification threshold.  With at most VERIFY_ALL_LIMIT points every
\* index 0..total-1 is checked exactly once; with more, exactly VERIFY_POINTS
\* indices are checked, each of them in 0..total-1.
C6_VerifyThreshold ==
    (prog = "mm2h5" /\ pc \in {"report", "exit_success"})
        => /\ verify.check_count = Len(verify.checked)
           /\ Len(points) <= 10000
                 => /\ Len(verify.checked) = Len(points)
                    /\ \A i \in 1..Len(points) : verify.checked[i] = i - 1
           /\ Len(points) > 10000
                 => /\ Len(verify.checked) = 10
                    /\ \A k \in 1..10 :
                           verify.checked[k] \in 0..(Len(points) - 1)

\* 10001 points were ingested and 10 of them checked
C6_Witness ==
    /\ prog = "mm2h5" /\ pc = "report"
    /\ Len(points) = 10001
    /\ Len(verify.checked) = 10
    /\ \E j, k \in 1..10 : verify.checked[j] # verify.checked[k]

\* C7: verification is never fatal.  Once the data is written the verifier
\* can always run, it checks every point it selected and ends with
\* 0 <= mismatches <= checked, the report can always follow and the run then
\* ends with the success status; the failure status is only ever returned
\* before the output file exists, and only the overflow of the point list
\* kills a run.
C7_VerifyNeverFatal ==
    prog = "mm2h5"
        => /\ pc = "verify" => ENABLED MmVerify
           /\ pc = "report" => ENABLED MmReport
           /\ pc \in {"report", "exit_success"}
                 => /\ verify.mismatches >= 0
                    /\ verify.mismatches <= verify.check_count
                    /\ verify.check_count = Len(verify.checked)
                    /\ h5 = "closed"
           /\ pc = "exit_failure" => (h5 = "none" /\ verify = NotVerified)
           /\ pc = "crashed" => overflow

\* every checked point mismatches and the run ends with the success status
C7_Witness ==
    /\ prog = "mm2h5" /\ pc = "exit_success"
    /\ verify.check_count > 0
    /\ verify.mismatches = verify.check_count

-----------------------------------------------------------------------------
(* Properties of the density sweep, checked under SpecSweep *)

\* create_hyperslab has returned for level n + 1 and the level is not over
SelectionMade ==
    /\ prog = "sparse"
    /\ pc \in {"generate", "hdf5_dsets", "encoded_dspace", "structured_dsets",
               "end_level"}

\* the value buffer of level n + 1 is filled
BufferFilled ==
    /\ prog = "sparse"
    /\ pc \in {"hdf5_dsets", "encoded_dspace", "structured_dsets", "end_level"}

\* C1: at every density level 1..max_percent and for each topology, the
\* element count create_hyperslab returned, which is the length of the value
\* buffer that is written, is the number of distinct coordinates selected in
\* the chunk's dataspace.
C1_CountMatchesSelection ==
    /\ SelectionMade
          => (n + 1 \in 1..hand.max_percent
              /\ nelemts = H5Sget_select_npoints(dataspace))
    /\ BufferFilled
          => (Len(data) = H5Sget_select_npoints(dataspace)
              /\ H5DwriteOk(dataspace, ChunkDims, data))

\* the contiguous topology at the highest level: 10 rows of 20 elements
C1_Witness ==
    /\ BufferFilled
    /\ hand.space_select = 3
    /\ n + 1 = 20
    /\ nelemts = 200
    /\ Len(data) = 200

\* the selected columns of row r
SelectedCols(r) == {c \in 0..(hand.chunk_dim2 - 1) : <<r, c>> \in dataspace}

\* C8: scattered topology.  Every row of the chunk has exactly
\* floor(cols * density / 100) selected columns, one in each bucket
\* [j*sections, (j+1)*sections) with sections = floor(100 / density), all of
\* them below cols, so that the selection has rows * num_selections points.
C8_ScatteredBuckets ==
    (SelectionMade /\ hand.space_select = 1)
        => LET density == n + 1
               num == (hand.chunk_dim2 * density) \div 100
               sec == 100 \div density
           IN  /\ \A p \in dataspace :
                      /\ p[1] \in 0..(hand.chunk_dim1 - 1)
                      /\ p[2] \in 0..(hand.chunk_dim2 - 1)
               /\ \A r \in 0..(hand.chunk_dim1 - 1) :
                      /\ Cardinality(SelectedCols(r)) = num
                      /\ \A j \in 0..(num - 1) :
                             Cardinality({c \in SelectedCols(r) :
                                 c >= j * sec /\ c < (j + 1) * sec}) = 1
               /\ H5Sget_select_npoints(dataspace) = hand.chunk_dim1 * num
               /\ nelemts = hand.chunk_dim1 * num

\* cols = 100 and density 20: sections of 5 columns, 20 points in each of the
\* 10 rows
C8_Witness ==
    /\ SelectionMade
    /\ hand.space_select = 1
    /\ hand.chunk_dim2 = 100
    /\ n + 1 = 20
    /\ Sections(n + 1) = 5
    /\ \A r \in 0..(hand.chunk_dim1 - 1) : Cardinality(SelectedCols(r)) = 20
    /\ H5Sget_select_npoints(dataspace) = 200

-----------------------------------------------------------------------------
(* create_hyperslab on its own: one call for a chunk shape, a topology and a *)
(* density                                                                    *)

\* largest select_percent passed to create_hyperslab
MaxSelectPercent == 25

\* the chunk shapes of the calls
ChunkShapes == {<<CHUNK_DIM1, CHUNK_DIM2>>, <<CHUNK_DIM2, CHUNK_DIM2>>,
                <<3 * CHUNK_DIM1, 7 * CHUNK_DIM1>>}

InitHyperslab ==
    /\ prog = "create_hyperslab"
    /\ pc = "call"
    /\ rng \in Seeds
    /\ \E shape \in ChunkShapes, sel \in 1..3 :
           hand = [DefaultOptions EXCEPT !.chunk_dim1 = shape[1],
                                         !.chunk_dim2 = shape[2],
                                         !.space_select = sel,
                                         !.max_percent = MaxSelectPercent]
    /\ n \in 0..(MaxSelectPercent - 1)
    /\ dataspace = H5Screate_simple(ChunkDims)
    /\ nelemts = 0
    /\ hs = [offset |-> <<0, 0>>, block |-> <<1, 1>>]
    /\ data = <<>>
    /\ group = NoGroup
    /\ st = [i \in 0..(MAX_PERCENT - 1) |-> UnsetStorage]
    /\ st_assigned = NeverAssigned
    /\ MmIdle
    /\ FrameIdle
    /\ VlIdle
    /\ RgIdle
    /\ MemIdle
    /\ LiveIdle
    /\ GenIdle

\* nelemts = create_hyperslab(n + 1, &dataspace)
CallCreateHyperslab ==
    /\ prog = "create_hyperslab" /\ pc = "call"
    /\ LET res == create_hyperslab(n + 1, dataspace, hand, rng)
       IN  /\ dataspace' = res.space
           /\ nelemts' = res.nelemts
           /\ hs' = [offset |-> res.offset, block |-> res.block]
           /\ rng' = res.rng
    /\ pc' = "returned"
    /\ UNCHANGED <<prog, hand, n, data, group, st, st_assigned, nonSweepVars>>

NextHyperslab == CallCreateHyperslab

SpecHyperslab == InitHyperslab /\ [][NextHyperslab]_vars

\* e is x * sqrt(density / 100) truncated to an integer
IsTruncatedRoot(e, x, density) ==
    /\ e >= 0
    /\ 100 * e * e <= x * x * density
    /\ x * x * density < 100 * (e + 1) * (e + 1)

\* C10: rectangular topology.  The block extent in each dimension is the
\* chunk dimension times sqrt(density / 100) truncated to an integer, the
\* point count is the product of the two extents and the number of selected
\* coordinates; a chunk of (100, 100) at density 25 gives extents 50 and 50
\* and 2500 points.
C10_RectangularCount ==
    (prog = "create_hyperslab" /\ pc = "returned" /\ hand.space_select = 2)
        => /\ IsTruncatedRoot(hs.block[1], hand.chunk_dim1, n + 1)
           /\ IsTruncatedRoot(hs.block[2], hand.chunk_dim2, n + 1)
           /\ nelemts = hs.block[1] * hs.block[2]
           /\ H5Sget_select_npoints(dataspace) = nelemts
           /\ (hand.chunk_dim1 = 100 /\ hand.chunk_dim2 = 100 /\ n + 1 = 25)
                 => (hs.block = <<50, 50>> /\ nelemts = 2500)

\* the call for a chunk of (100, 100) at density 25 has returned 2500
C10_Witness ==
    /\ prog = "create_hyperslab" /\ pc = "returned"
    /\ hand.space_select = 2
    /\ hand.chunk_dim1 = 100 /\ hand.chunk_dim2 = 100
    /\ n + 1 = 25
    /\ hs.block = <<50, 50>>
    /\ nelemts = 2500
    /\ H5Sget_select_npoints(dataspace) = 2500

-----------------------------------------------------------------------------
(* benchmarks/frame-writer-str.c *)

\* the values of m= on the command line, in percent.  For these and chunks
\* of up to 40 x 40 the double products below truncate to the integers the
\* operators compute.
Fractions == {0, 10, 25, 100, 121, 400}

\* a variant of the slab extent without the replacement of 0 by 1
SlabExtentUnclamped(rows, m) == ISqrt((rows * rows * m) \div 100)

\* (hsize_t)(this_rows * sqrt(mfrac)), 0 replaced by 1: lines 199-202
SlabExtent(rows, m) ==
    LET e == ISqrt((rows * rows * m) \div 100)
    IN  IF e = 0 THEN 1 ELSE e

\* (hsize_t)(this_rows * this_cols * mfrac), 0 replaced by 1: lines 151-152
NumPoints(rows, cols, m) ==
    LET k == (rows * cols * m) \div 100
    IN  IF k = 0 THEN 1 ELSE k

\* hsize_t start[2] = {rand() % m1, rand() % m2}: the two calls are
\* indeterminately sequenced, the build fixes their order
TwoDraws(s, m1, m2, order) ==
    IF order = "left" THEN <<Rand(s, 1) % m1, Rand(s, 2) % m2>>
    ELSE <<Rand(s, 2) % m1, Rand(s, 1) % m2>>

\* n_chunks_x and n_chunks_y, lines 138-139
n_chunks_x == frame.xdim \div frame.xchunk
n_chunks_y == frame.ydim \div frame.ychunk

InChunkLoop == cx < n_chunks_x /\ cy < n_chunks_y

\* the loop indices of the chunk after (cx, cy)
NextChunk ==
    IF cy + 1 < n_chunks_y THEN <<cx, cy + 1>> ELSE <<cx + 1, 0>>

\* hsize_t offset[2] = {cx * xchunk, cy * ychunk}
ChunkOffset == <<cx * frame.xchunk, cy * frame.ychunk>>

\* (int)(cx * n_chunks_y + cy + 1)
ChunkNumber == cx * n_chunks_y + cy + 1

FrameDims == <<frame.xdim, frame.ydim>>

\* the command lines tried
FrameArgs ==
    {[DefaultArgs EXCEPT !.xdim = 20, !.ydim = 20, !.m = m,
                         !.random_data = rd, !.random_pattern = 0,
                         !.eval_order = o] :
         m \in Fractions, rd \in {0, 1}, o \in {"left", "right"}}
    \cup {[DefaultArgs EXCEPT !.xdim = 20, !.ydim = 20, !.m = m,
                              !.random_data = rd, !.eval_order = o] :
              m \in {0, 10, 25}, rd \in {0, 1}, o \in {"left", "right"}}
    \cup {[DefaultArgs EXCEPT !.xdim = 10, !.ydim = 10, !.xchunk = 4,
                              !.ychunk = 5, !.m = m, !.compress = 1,
                              !.random_pattern = rp] :
              m \in {25, 100}, rp \in {0, 1}}
    \cup {[DefaultArgs EXCEPT !.xdim = 2, !.ydim = 2, !.xchunk = 2,
                              !.ychunk = 2, !.m = 400, !.random_data = 0],
          [DefaultArgs EXCEPT !.have_outfile = FALSE]}

InitFrame ==
    /\ prog = "frame"
    /\ pc = "args"
    /\ rng = 1
    /\ frame \in FrameArgs
    /\ cx = 0
    /\ cy = 0
    /\ filespace = {}
    /\ num_points = 0
    /\ pt = 0
    /\ chunk_buf = <<>>
    /\ slab = NoSlab
    /\ fdset = [p \in {} |-> 0]
    /\ h5dwrites = <<>>
    /\ SweepIdle
    /\ MmIdle
    /\ VlIdle
    /\ RgIdle
    /\ MemIdle
    /\ LiveIdle
    /\ GenIdle

\* parse_args, lines 88-92: no outfile= on the command line
FrameUsage ==
    /\ prog = "frame" /\ pc = "args"
    /\ ~frame.have_outfile
    /\ pc' = "exit_failure"
    /\ UNCHANGED <<prog, rng, frameVars, nonFrameVars>>

\* main, lines 110-139: srand(time(NULL)), the file and the dataset are
\* created
FrameStart ==
    /\ prog = "frame" /\ pc = "args"
    /\ frame.have_outfile
    /\ rng' \in Seeds
    /\ cx' = 0
    /\ cy' = 0
    /\ pc' = "chunk"
    /\ UNCHANGED <<prog, frame, filespace, num_points, pt, chunk_buf, slab,
                   fdset, h5dwrites, nonFrameVars>>

\* lines 196-222 for a slab of slab_rows x slab_cols whose start is drawn
\* modulo mod_rows and mod_cols; rand() % 0 kills the run
WriteSlab(slab_rows, slab_cols, mod_rows, mod_cols) ==
    IF mod_rows = 0 \/ mod_cols = 0
    THEN /\ pc' = "crashed"
         /\ UNCHANGED <<rng, cx, cy, filespace, chunk_buf, slab, fdset,
                        h5dwrites>>
    ELSE LET start == TwoDraws(rng, mod_rows, mod_cols, frame.eval_order)
             total_elems == slab_rows * slab_cols
             buf == [i \in 1..total_elems |->
                        IF frame.random_data # 0 THEN Rand(rng, 2 + i) % 100
                        ELSE ChunkNumber]
             sel == H5Sselect_hyperslab(H5Screate_simple(FrameDims), "SET",
                        <<ChunkOffset[1] + start[1], ChunkOffset[2] + start[2]>>,
                        <<slab_rows, slab_cols>>)
         IN  /\ rng' = RandJump(rng, IF frame.random_data # 0
                                     THEN 2 + total_elems ELSE 2)
             /\ slab' = [offset |-> ChunkOffset, start |-> start,
                         slab |-> <<slab_rows, slab_cols>>]
             /\ chunk_buf' = <<>>
             /\ fdset' = Overwrite(fdset, H5Dwrite(sel, FrameDims, buf))
             /\ h5dwrites' = Append(h5dwrites,
                                    DOMAIN H5Dwrite(sel, FrameDims, buf))
             /\ filespace' = H5Sselect_none
             /\ cx' = NextChunk[1]
             /\ cy' = NextChunk[2]
             /\ pc' = "chunk"

PlaceSlab(slab_rows, slab_cols) ==
    WriteSlab(slab_rows, slab_cols,
              (frame.xchunk - slab_rows + 1) % ULL_MODULUS,
              (frame.ychunk - slab_cols + 1) % ULL_MODULUS)

\* lines 141-147 and 196-226: one contiguous hyperslab for the chunk
FrameContiguousChunk ==
    /\ prog = "frame" /\ pc = "chunk"
    /\ InChunkLoop
    /\ frame.random_pattern = 0
    /\ PlaceSlab(SlabExtent(frame.xchunk, frame.m),
                 SlabExtent(frame.ychunk, frame.m))
    /\ UNCHANGED <<prog, frame, num_points, pt, nonFrameVars>>

\* lines 141-158: the random pattern of the chunk is begun
FrameRandomBegin ==
    /\ prog = "frame" /\ pc = "chunk"
    /\ InChunkLoop
    /\ frame.random_pattern # 0
    /\ num_points' = NumPoints(frame.xchunk, frame.ychunk, frame.m)
    /\ pt' = 0
    /\ chunk_buf' = <<>>
    /\ filespace' = H5Screate_simple(FrameDims)
    /\ pc' = "point"
    /\ UNCHANGED <<prog, rng, frame, cx, cy, slab, fdset, h5dwrites,
                   nonFrameVars>>

\* the 1 x 1 hyperslab at a random cell of the chunk, H5S_SELECT_SET for
\* point 0 and H5S_SELECT_OR afterwards
SelectRandomCell ==
    LET start == TwoDraws(rng, frame.xchunk, frame.ychunk, frame.eval_order)
    IN  /\ filespace' = H5Sselect_hyperslab(filespace,
                            IF pt = 0 THEN "SET" ELSE "OR",
                            <<ChunkOffset[1] + start[1], ChunkOffset[2] + start[2]>>,
                            <<1, 1>>)
        /\ rng' = RandJump(rng, 2)

\* lines 160-167: point n is drawn and selected
FramePoint ==
    /\ prog = "frame" /\ pc = "point"
    /\ pt < num_points
    /\ SelectRandomCell
    /\ pc' = "retry"
    /\ UNCHANGED <<prog, frame, cx, cy, num_points, pt, chunk_buf, slab, fdset,
                   h5dwrites, nonFrameVars>>

\* lines 172-177: the selection did not grow, another cell is drawn
FrameRetry ==
    /\ prog = "frame" /\ pc = "retry"
    /\ pt + 1 # H5Sget_select_npoints(filespace)
    /\ SelectRandomCell
    /\ pc' = "retry"
    /\ UNCHANGED <<prog, frame, cx, cy, num_points, pt, chunk_buf, slab, fdset,
                   h5dwrites, nonFrameVars>>

\* lines 172 and 179: the selection has n + 1 points, chunk_buf[n] is set
FrameFill ==
    /\ prog = "frame" /\ pc = "retry"
    /\ pt + 1 = H5Sget_select_npoints(filespace)
    /\ chunk_buf' = Append(chunk_buf, IF frame.random_data # 0
                                      THEN Rand(rng, 1) % 100 ELSE ChunkNumber)
    /\ rng' = (IF frame.random_data # 0 THEN RandJump(rng, 1) ELSE rng)
    /\ pt' = pt + 1
    /\ pc' = "point"
    /\ UNCHANGED <<prog, frame, cx, cy, filespace, num_points, slab, fdset,
                   h5dwrites, nonFrameVars>>

\* lines 182-195: the chunk's points are written
FrameRandomWrite ==
    /\ prog = "frame" /\ pc = "point"
    /\ ~(pt < num_points)
    /\ fdset' = Overwrite(fdset, H5Dwrite(filespace, FrameDims, chunk_buf))
    /\ h5dwrites' = Append(h5dwrites,
                           DOMAIN H5Dwrite(filespace, FrameDims, chunk_buf))
    /\ filespace' = H5Sselect_none
    /\ chunk_buf' = <<>>
    /\ cx' = NextChunk[1]
    /\ cy' = NextChunk[2]
    /\ pc' = "chunk"
    /\ UNCHANGED <<prog, rng, frame, num_points, pt, slab, nonFrameVars>>

\* lines 232-237: the loops are over, the file is closed
FrameFinish ==
    /\ prog = "frame" /\ pc = "chunk"
    /\ ~InChunkLoop
    /\ pc' = "exit_success"
    /\ UNCHANGED <<prog, rng, frameVars, nonFrameVars>>

NextFrame ==
    \/ FrameUsage
    \/ FrameStart
    \/ FrameContiguousChunk
    \/ FrameRandomBegin
    \/ FramePoint
    \/ FrameRetry
    \/ FrameFill
    \/ FrameRandomWrite
    \/ FrameFinish

SpecFrame == InitFrame /\ [][NextFrame]_vars

-----------------------------------------------------------------------------
(* The rectangular topology of the density sweep and of the frame writer *)

InitRect == InitSweep \/ InitFrame

NextRect == NextSweep \/ NextFrame

SpecRect == InitRect /\ [][NextRect]_vars

\* the block of origin and extent lies in a chunk of shape, its origin in
\* the upper-left quadrant
InUpperLeftQuadrant(origin, shape) ==
    2 * origin[1] < shape[1] /\ 2 * origin[2] < shape[2]

InsideChunk(origin, extent, shape) ==
    /\ origin[1] >= 0 /\ origin[1] + extent[1] <= shape[1]
    /\ origin[2] >= 0 /\ origin[2] + extent[2] <= shape[2]

\* the density sweep has selected its rectangular block
SweepBlockSelected == SelectionMade /\ hand.space_select = 2

\* the frame writer has placed a contiguous slab
FrameSlabPlaced == prog = "frame" /\ slab # NoSlab

\* C9: rectangular topology.  For every accepted density and every outcome
\* of the generator the origin of the block is in the upper-left quadrant of
\* the chunk and origin + extent is within the chunk in both dimensions, for
\* the block of the density sweep and for the contiguous slab of the frame
\* writer.
C9_BlockStaysInChunk ==
    /\ SweepBlockSelected
          => /\ InUpperLeftQuadrant(hs.offset, ChunkDims)
             /\ InsideChunk(hs.offset, hs.block, ChunkDims)
    /\ FrameSlabPlaced
          => /\ InUpperLeftQuadrant(slab.start, <<frame.xchunk, frame.ychunk>>)
             /\ InsideChunk(slab.start, slab.slab,
                            <<frame.xchunk, frame.ychunk>>)

\* what holds of the two programs: the sweep's block is as C9 says; the frame
\* writer's slab is inside its chunk whenever m is at most 100
RectPlacement ==
    /\ SweepBlockSelected
          => /\ InUpperLeftQuadrant(hs.offset, ChunkDims)
             /\ InsideChunk(hs.offset, hs.block, ChunkDims)
    /\ (FrameSlabPlaced /\ frame.m <= 100)
          => InsideChunk(slab.start, slab.slab, <<frame.xchunk, frame.ychunk>>)

\* m=400 is accepted and the slab leaves its chunk
SlabLeavesChunk ==
    /\ FrameSlabPlaced
    /\ frame.m = 400
    /\ ~InsideChunk(slab.start, slab.slab, <<frame.xchunk, frame.ychunk>>)

-----------------------------------------------------------------------------
(* The contiguous topology, checked under SpecHyperslab *)

\* C11: contiguous row runs.  Every row of the chunk gets exactly one run of
\* run_len = floor(cols * density / 100) consecutive columns, the run starts
\* at a column start with 0 <= start and start + run_len <= cols, and the
\* point count is rows * run_len; cols = 100 at density 10 gives runs of 10.
C11_ContiguousRuns ==
    (prog = "create_hyperslab" /\ pc = "returned" /\ hand.space_select = 3)
        => LET run_len == (hand.chunk_dim2 * (n + 1)) \div 100
           IN  /\ hs.block = <<1, run_len>>
               /\ \A p \in dataspace :
                      /\ p[1] \in 0..(hand.chunk_dim1 - 1)
                      /\ p[2] \in 0..(hand.chunk_dim2 - 1)
               /\ \A r \in 0..(hand.chunk_dim1 - 1) :
                      \E start \in 0..(hand.chunk_dim2 - run_len) :
                          SelectedCols(r) = start..(start + run_len - 1)
               /\ nelemts = hand.chunk_dim1 * run_len
               /\ H5Sget_select_npoints(dataspace) = hand.chunk_dim1 * run_len
               /\ (hand.chunk_dim2 = 100 /\ n + 1 = 10) => run_len = 10

\* cols = 100 at density 10: every row holds one run of 10 columns, and the
\* runs of two rows start at different columns
C11_Witness ==
    /\ prog = "create_hyperslab" /\ pc = "returned"
    /\ hand.space_select = 3
    /\ hand.chunk_dim2 = 100
    /\ n + 1 = 10
    /\ \A r \in 0..(hand.chunk_dim1 - 1) : Cardinality(SelectedCols(r)) = 10
    /\ SelectedCols(0) # SelectedCols(1)
    /\ nelemts = hand.chunk_dim1 * 10

-----------------------------------------------------------------------------
(* The density option of the two generators, checked under SpecRect *)

\* the other options of the density sweep are in their ranges
OtherOptionsValid ==
    /\ hand.space_select \in 1..3
    /\ hand.d \in 0..1
    /\ hand.v \in 0..1

\* the frame writer has selected elements of a chunk
FrameSelectionMade ==
    prog = "frame" /\ (slab # NoSlab \/ filespace # {})

\* C12: density range.  A requested density percent is accepted if and only
\* if it lies in 1..100: the density sweep rejects its maximum exactly when it
\* is outside 1..100, and the frame writer selects elements of a chunk only
\* for an m in 1..100.
C12_DensityRange ==
    /\ (prog = "sparse" /\ pc # "parse" /\ OtherOptionsValid)
          => (pc = "exit1" <=> hand.max_percent \notin 1..100)
    /\ FrameSelectionMade => frame.m \in 1..100

\* what holds of the two programs: the sweep accepts its maximum exactly when
\* it is in 1..MAX_PERCENT, the frame writer rejects no m
DensityChecks ==
    /\ (prog = "sparse" /\ pc # "parse" /\ OtherOptionsValid)
          => (pc = "exit1" <=> hand.max_percent \notin 1..MAX_PERCENT)
    /\ prog = "frame" => (pc = "exit_failure" => ~frame.have_outfile)

\* m=0 is accepted and a slab of one element is selected in a chunk
ZeroDensitySelected ==
    /\ FrameSelectionMade
    /\ frame.m = 0
    /\ slab.slab = <<1, 1>>

\* the sweep rejects a maximum of 21 percent
SweepRejectsInRange ==
    /\ prog = "sparse" /\ pc = "exit1"
    /\ OtherOptionsValid
    /\ hand.max_percent = MAX_PERCENT + 1

-----------------------------------------------------------------------------
(* The storage table of the density sweep, checked under SpecSweep *)

\* the three functions that assign members of st[n]
RecordingStep == pc \in {"hdf5_dsets", "encoded_dspace", "structured_dsets"}

\* C13: storage accounting.  In a sweep over the levels 1..M each of the six
\* size counters of a level is assigned exactly once, while that level is
\* generated; no counter of a level changes after the level has completed or
\* before it has begun; and the results are printed only when the six
\* counters of each of the M levels have been assigned.
C13_StorageAccounting ==
    [][prog = "sparse" =>
        /\ \A i \in 0..(MAX_PERCENT - 1), f \in StorageMembers :
              /\ st_assigned'[i][f] # st_assigned[i][f]
                    => /\ i = n /\ i < hand.max_percent
                       /\ RecordingStep
                       /\ st_assigned[i][f] = 0
                       /\ st_assigned'[i][f] = 1
              /\ st'[i][f] # st[i][f]
                    => st_assigned'[i][f] # st_assigned[i][f]
        /\ pc = "end_level"
              => \A f \in StorageMembers : st_assigned[n][f] = 1
        /\ pc' = "exit0"
              => \A i \in 0..(MAX_PERCENT - 1), f \in StorageMembers :
                     st_assigned[i][f] = (IF i < hand.max_percent THEN 1 ELSE 0)
      ]_vars

\* a sweep over 20 levels has ended: every counter was assigned once
C13_Witness ==
    /\ prog = "sparse" /\ pc = "exit0"
    /\ hand.max_percent = MAX_PERCENT
    /\ \A i \in 0..(MAX_PERCENT - 1), f \in StorageMembers :
           st_assigned[i][f] = 1 /\ st[i][f] > 0

-----------------------------------------------------------------------------
(* benchmarks/vl.c *)

CHAR_MAX == 127
INT_MAX == 2147483647

\* the largest number of elements and the largest maximal length tried
MaxElements == 3
MaxVlLen == 3

\* an int has half the width of an unsigned long long: WORD_MODULUS stands
\* for 2^32 as ULL_MODULUS, its square, stands for 2^64
WORD_MODULUS == 32768

\* parse_command_line's checks, lines 146-160
VlOptionsValid(h) ==
    /\ ~(h.nelemts < 1 \/ h.nelemts > INT_MAX)
    /\ ~(h.max_len < 1 \/ h.max_len > INT_MAX)
    /\ ~(h.d < 0 \/ h.d > 1)

\* conversion of an int to char
ToChar(x) ==
    LET b == x % (2 * (CHAR_MAX + 1))
    IN  IF b > CHAR_MAX THEN b - 2 * (CHAR_MAX + 1) ELSE b

\* line 187: vl_data[i].len = rand() % hand.max_len + 1
VlLength(h, s) == (Rand(s, 1) % h.max_len) + 1

\* lines 188-196: the bytes of the element, random or 0, 1, 2, ...
VlElementBytes(h, s) ==
    [j \in 1..VlLength(h, s) |->
        IF h.d # 0 THEN ToChar(Rand(s, 1 + j) % CHAR_MAX) ELSE ToChar(j - 1)]

\* a variant of the pair that stores the offset after it was advanced
AppendPairOffsetAfter(pairs, offset, len) == pairs \o <<offset + len, len>>

\* lines 199-201: *p++ = offset; offset += len; *p++ = len
AppendPair(pairs, offset, len) == pairs \o <<offset, len>>

\* lines 208-213: the elements from element i on are copied one after the
\* other to ptr
RECURSIVE CopyElements(_, _)
CopyElements(elements, i) ==
    IF i > Len(elements) THEN <<>>
    ELSE elements[i] \o CopyElements(elements, i + 1)

\* element k of a buffer of unsigned long long that is read as a buffer of
\* int: one half of element (k + 1) / 2, the low half first when the least
\* significant byte comes first
ReadAsInt(buf, k, byte_order) ==
    LET v == buf[(k + 1) \div 2]
        low == v % WORD_MODULUS
        high == v \div WORD_MODULUS
    IN  IF (k % 2 = 1) = (byte_order = "little") THEN low ELSE high

\* the store's conversion of an int to unsigned long long: a negative value
\* is stored as 0
IntToUllong(w) == IF w >= WORD_MODULUS \div 2 THEN 0 ELSE w

\* H5Dwrite(dset, mem_type, H5S_ALL, H5S_ALL, H5P_DEFAULT, buf) to a dataset
\* of count elements of type unsigned long long: the values stored
H5DwriteAs(buf, count, mem_type, byte_order) ==
    [k \in 1..count |->
        IF mem_type = "H5T_NATIVE_ULLONG" THEN buf[k]
        ELSE IntToUllong(ReadAsInt(buf, k, byte_order))]

\* the store with the values written to the dataset name
Stored(store, name, values) ==
    [x \in (DOMAIN store) \cup {name} |->
        IF x = name THEN values ELSE store[x]]

\* the options tried: 1..MaxElements elements of a length up to 1..MaxVlLen,
\* and the defaults with one option outside its range
VlAccepted ==
    [nelemts : 1..MaxElements, max_len : 1..MaxVlLen, d : {0, 1},
     byte_order : {"little", "big"}]

VlRejected ==
    {[VlDefaults EXCEPT !.nelemts = 0], [VlDefaults EXCEPT !.max_len = 0],
     [VlDefaults EXCEPT !.d = 2], [VlDefaults EXCEPT !.d = -1]}

InitVl ==
    /\ prog = "vl"
    /\ pc = "parse"
    /\ rng \in Seeds
    /\ vl_hand \in VlAccepted \cup VlRejected
    /\ vl_i = 0
    /\ vl_data = <<>>
    /\ the_pairs = <<>>
    /\ vl_offset = 0
    /\ total_len = 0
    /\ all_strings = <<>>
    /\ vl_store = NoDatasets
    /\ SweepIdle
    /\ MmIdle
    /\ FrameIdle
    /\ RgIdle
    /\ MemIdle
    /\ LiveIdle
    /\ GenIdle

\* parse_command_line rejects the options: exit(1)
VlReject ==
    /\ prog = "vl" /\ pc = "parse"
    /\ ~VlOptionsValid(vl_hand)
    /\ pc' = "exit1"
    /\ UNCHANGED <<prog, rng, vlVars, nonVlVars>>

\* main, lines 335-349, and create_dsets, lines 173-184
VlStart ==
    /\ prog = "vl" /\ pc = "parse"
    /\ VlOptionsValid(vl_hand)
    /\ vl_i' = 0
    /\ pc' = "generate"
    /\ UNCHANGED <<prog, rng, vl_hand, vl_data, the_pairs, vl_offset,
                   total_len, all_strings, vl_store, nonVlVars>>

\* lines 186-205: element i is generated and its pair appended
VlElement ==
    /\ prog = "vl" /\ pc = "generate"
    /\ vl_i < vl_hand.nelemts
    /\ LET bytes == VlElementBytes(vl_hand, rng)
       IN  /\ vl_data' = Append(vl_data, bytes)
           /\ the_pairs' = AppendPair(the_pairs, vl_offset, Len(bytes))
           /\ vl_offset' = (vl_offset + Len(bytes)) % ULL_MODULUS
           /\ total_len' = (total_len + Len(bytes)) % ULL_MODULUS
           /\ rng' = RandJump(rng, IF vl_hand.d # 0 THEN 1 + Len(bytes) ELSE 1)
    /\ vl_i' = vl_i + 1
    /\ UNCHANGED <<prog, pc, vl_hand, all_strings, vl_store, nonVlVars>>

\* lines 207-213: the blob is allocated and filled
VlCopy ==
    /\ prog = "vl" /\ pc = "generate"
    /\ ~(vl_i < vl_hand.nelemts)
    /\ all_strings' = CopyElements(vl_data, 1)
    /\ pc' = "write_vl"
    /\ UNCHANGED <<prog, rng, vl_hand, vl_i, vl_data, the_pairs, vl_offset,
                   total_len, vl_store, nonVlVars>>

\* lines 215-247: the elements are written as variable-length data
VlWriteElements ==
    /\ prog = "vl" /\ pc = "write_vl"
    /\ vl_store' = Stored(Stored(vl_store, "vl_dset", vl_data),
                          "vl_dset_comp", vl_data)
    /\ pc' = "write_pairs"
    /\ UNCHANGED <<prog, rng, vl_hand, vl_i, vl_data, the_pairs, vl_offset,
                   total_len, all_strings, nonVlVars>>

\* lines 254-276: the pairs are written, with the memory type
\* H5T_NATIVE_ULLONG to the one dataset and H5T_NATIVE_INT to the other
VlWritePairs ==
    /\ prog = "vl" /\ pc = "write_pairs"
    /\ vl_store' =
           Stored(Stored(vl_store, "offset_length_dset",
                         H5DwriteAs(the_pairs, 2 * vl_hand.nelemts,
                                    "H5T_NATIVE_ULLONG", vl_hand.byte_order)),
                  "offset_length_dset_comp",
                  H5DwriteAs(the_pairs, 2 * vl_hand.nelemts,
                             "H5T_NATIVE_INT", vl_hand.byte_order))
    /\ pc' = "write_blob"
    /\ UNCHANGED <<prog, rng, vl_hand, vl_i, vl_data, the_pairs, vl_offset,
                   total_len, all_strings, nonVlVars>>

\* lines 283-305: the blob is written
VlWriteBlob ==
    /\ prog = "vl" /\ pc = "write_blob"
    /\ vl_store' = Stored(Stored(vl_store, "data", all_strings),
                          "data_comp", all_strings)
    /\ pc' = "free"
    /\ UNCHANGED <<prog, rng, vl_hand, vl_i, vl_data, the_pairs, vl_offset,
                   total_len, all_strings, nonVlVars>>

\* lines 307-317 and 351-357: the buffers are freed, the files closed
VlFinish ==
    /\ prog = "vl" /\ pc = "free"
    /\ vl_data' = <<>>
    /\ the_pairs' = <<>>
    /\ all_strings' = <<>>
    /\ pc' = "exit0"
    /\ UNCHANGED <<prog, rng, vl_hand, vl_i, vl_offset, total_len, vl_store,
                   nonVlVars>>

NextVl ==
    \/ VlReject
    \/ VlStart
    \/ VlElement
    \/ VlCopy
    \/ VlWriteElements
    \/ VlWritePairs
    \/ VlWriteBlob
    \/ VlFinish

SpecVl == InitVl /\ [][NextVl]_vars

-----------------------------------------------------------------------------
(* Properties of the variable-length packer, checked under SpecVl *)

\* the sum of the lengths of the first k elements
RECURSIVE LengthsUpTo(_)
LengthsUpTo(k) == IF k = 0 THEN 0 ELSE LengthsUpTo(k - 1) + Len(vl_data[k])

\* offset and length of element i (1-based) in the_pairs
PairOffset(i) == the_pairs[2 * i - 1]
PairLength(i) == the_pairs[2 * i]

\* the blob is filled and not yet freed
Packed == prog = "vl" /\ pc \in {"write_vl", "write_pairs", "write_blob", "free"}

\* C14: variable-length packing.  The pair of element i is (the sum of the
\* lengths of the elements before it, its length): the first offset is 0,
\* each offset is the previous offset plus the previous length, the last
\* offset plus the last length is the length of the blob, and the bytes of
\* the blob from offset(i) up to offset(i) + length(i) are the bytes of
\* element i.
C14_VlPacking ==
    /\ (prog = "vl" /\ pc \in {"generate", "write_vl", "write_pairs",
                               "write_blob", "free"})
          => /\ Len(vl_data) = vl_i
             /\ Len(the_pairs) = 2 * vl_i
             /\ \A i \in 1..vl_i :
                    /\ PairOffset(i) = LengthsUpTo(i - 1)
                    /\ PairLength(i) = Len(vl_data[i])
             /\ vl_i >= 1 => PairOffset(1) = 0
             /\ \A i \in 1..(vl_i - 1) :
                    PairOffset(i + 1) = PairOffset(i) + PairLength(i)
             /\ vl_offset = LengthsUpTo(vl_i)
             /\ total_len = vl_offset
    /\ Packed
          => /\ vl_i = vl_hand.nelemts
             /\ PairOffset(vl_i) + PairLength(vl_i) = Len(all_strings)
             /\ Len(all_strings) = total_len
             /\ \A i \in 1..vl_i :
                    SubSeq(all_strings, PairOffset(i) + 1,
                           PairOffset(i) + PairLength(i)) = vl_data[i]

\* three elements of different lengths are packed
C14_Witness ==
    /\ Packed
    /\ vl_i = 3
    /\ PairLength(1) # PairLength(2)
    /\ PairOffset(3) = PairLength(1) + PairLength(2)
    /\ Len(all_strings) = PairOffset(3) + PairLength(3)

\* the datasets of vl.c and their compressed counterparts
CompressedCounterpart ==
    {<<"vl_dset", "vl_dset_comp">>,
     <<"offset_length_dset", "offset_length_dset_comp">>,
     <<"data", "data_comp">>}

\* C15: every section is stored uncompressed and compressed with the same
\* content.  Whenever a dataset has been written its compressed counterpart
\* has been written too, and the two hold the same values: for the
\* variable-length elements, for the offset/length index and for the blob.
C15_CompressedSameContent ==
    prog = "vl"
        => \A ds \in CompressedCounterpart :
               ds[1] \in DOMAIN vl_store
                   => /\ ds[2] \in DOMAIN vl_store
                      /\ vl_store[ds[2]] = vl_store[ds[1]]

\* what holds of vl.c: the elements and the blob are stored twice with the
\* same values, and the compressed index holds, of the first nelemts numbers
\* of the_pairs, the two halves of each
VlStoredContent ==
    prog = "vl"
        => /\ "vl_dset" \in DOMAIN vl_store
                 => vl_store["vl_dset_comp"] = vl_store["vl_dset"]
           /\ "data" \in DOMAIN vl_store
                 => vl_store["data_comp"] = vl_store["data"]
           /\ "offset_length_dset" \in DOMAIN vl_store
                 => /\ Len(vl_store["offset_length_dset_comp"])
                          = 2 * vl_hand.nelemts
                    /\ vl_store["offset_length_dset_comp"]
                          # vl_store["offset_length_dset"]
                    /\ \A k \in 1..vl_hand.nelemts :
                           {vl_store["offset_length_dset_comp"][2 * k - 1],
                            vl_store["offset_length_dset_comp"][2 * k]}
                               = {0, vl_store["offset_length_dset"][k]}

\* one element of length 1: the index (0, 1) is stored as (0, 0) in the
\* compressed dataset
IndexCopiesDiffer ==
    /\ prog = "vl" /\ pc = "exit0"
    /\ vl_hand.nelemts = 1 /\ vl_hand.max_len = 1
    /\ vl_store["offset_length_dset"] = <<0, 1>>
    /\ vl_store["offset_length_dset_comp"] = <<0, 0>>

-----------------------------------------------------------------------------
(* Failed store calls of the triplet ingester, checked under SpecMm *)

\* the write of the group last handed to the store failed
GroupWriteFailed ==
    prog = "mm2h5" /\ pc = "groups" /\ grp.count > 0 /\ ~grp.written

\* C17: a failed store call is propagated.  After a group whose write
\* failed the run stops with an error: it neither goes on to the next
\* group nor closes the file and reports the data as successfully written.
C17_FailedWritePropagated ==
    [][GroupWriteFailed => pc' \notin {"groups", "verify"}]_vars

\* what holds of mm2h5.c: whatever the outcome of the writes, the run goes
\* on to the report of success unless the overflow of the point list kills it
WriteOutcomeIgnored ==
    [][(prog = "mm2h5" /\ pc = "groups")
          => pc' \in {"groups", "verify", "crashed"}]_vars

\* the write of the only group failed and the run ended with the success
\* status
FailedWriteReportedWritten ==
    /\ prog = "mm2h5" /\ pc = "exit_success"
    /\ group_count = 1
    /\ Len(points) = 2
    /\ dset = [p \in {} |-> 0]

-----------------------------------------------------------------------------
(* benchmarks/sparse.c: the values of level 1 on their own, for the default *)
(* chunk and for the chunk of -c 1x1                                         *)

\* hand.chunk_dim1 *= 1024, line 178
KB == 1024

\* the chunk shapes of the runs: no option -c, and -c 1x1
GenerateShapes == {<<CHUNK_DIM1, CHUNK_DIM2>>, <<1 * KB, 1 * KB>>}

\* the state in which main reaches line 630 in its first iteration
InitGenerate ==
    /\ prog = "sparse"
    /\ pc = "generate"
    /\ n = 0
    /\ \E shape \in GenerateShapes, sel \in 1..3, dflag \in {0, 1},
          verbose \in {0, 1}, max \in {GROUP_NUM, MAX_PERCENT}, seed \in Seeds :
           /\ hand = [chunk_dim1 |-> shape[1], chunk_dim2 |-> shape[2],
                      space_select |-> sel, max_percent |-> max,
                      d |-> dflag, v |-> verbose]
           /\ LET res == create_hyperslab(1, H5Screate_simple(shape),
                                          hand, seed)
              IN  /\ dataspace = res.space
                  /\ nelemts = res.nelemts
                  /\ hs = [offset |-> res.offset, block |-> res.block]
                  /\ rng = res.rng
    /\ data = <<>>
    /\ group = [open |-> TRUE, dsets |-> {}]
    /\ st = [i \in 0..(MAX_PERCENT - 1) |-> UnsetStorage]
    /\ st_assigned = NeverAssigned
    /\ MmIdle
    /\ FrameIdle
    /\ VlIdle
    /\ RgIdle
    /\ MemIdle
    /\ LiveIdle
    /\ GenIdle

NextGenerate == SweepGenerateData

SpecGenerate == InitGenerate /\ [][NextGenerate]_vars

\* C18: compressible data.  With -d 0 every value generated for a defined
\* element lies in 1..UCHAR_MAX, whatever the number of elements: no defined
\* element gets the value 0, which stands for an undefined element of the
\* dense dataset.
C18_CompressibleValuesNonZero ==
    (prog = "sparse" /\ pc = "hdf5_dsets" /\ hand.d = 0)
        => /\ Len(data) = nelemts
           /\ \A i \in 1..Len(data) : data[i] \in 1..UCHAR_MAX

\* what holds of sparse.c: the value of element i (counted from 0) is
\* (i + 1) % UCHAR_MAX, which is 0 for every i + 1 that UCHAR_MAX divides,
\* and random values are in 1..UCHAR_MAX
GeneratedValues ==
    (prog = "sparse" /\ pc = "hdf5_dsets")
        => /\ Len(data) = nelemts
           /\ hand.d = 0
                 => \A i \in 1..Len(data) :
                        /\ data[i] = i % UCHAR_MAX
                        /\ data[i] = 0 <=> i % UCHAR_MAX = 0
           /\ hand.d = 1
                 => \A i \in 1..Len(data) : data[i] \in 1..UCHAR_MAX

\* -c 1x1 -d 0: element 254 of level 1 is given the value 0
ZeroValueGenerated ==
    /\ prog = "sparse" /\ pc = "hdf5_dsets"
    /\ hand.d = 0
    /\ hand.chunk_dim1 = KB
    /\ nelemts >= UCHAR_MAX
    /\ data[UCHAR_MAX] = 0

-----------------------------------------------------------------------------
(* The chunks the frame writer visits, checked under SpecFrame *)

\* the chunks of the X by Y dataset, the partial ones at its edge included:
\* ceil(X / XC) by ceil(Y / YC) of them
DatasetChunks ==
    {<<i, j>> : i \in 0..((frame.xdim + frame.xchunk - 1) \div frame.xchunk - 1),
                j \in 0..((frame.ydim + frame.ychunk - 1) \div frame.ychunk - 1)}

\* the chunks of lines 141-142: the ones that lie in the dataset as a whole
VisitedChunks ==
    {<<i, j>> : i \in 0..(n_chunks_x - 1), j \in 0..(n_chunks_y - 1)}

\* the cells of the dataset that lie in chunk c
ChunkCells(c) ==
    {p \in H5Screate_simple(FrameDims) :
        p[1] \div frame.xchunk = c[1] /\ p[2] \div frame.ychunk = c[2]}

\* the number of H5Dwrite calls that wrote cells of chunk c
WritesInto(c) ==
    Cardinality({k \in 1..Len(h5dwrites) : h5dwrites[k] \cap ChunkCells(c) # {}})

FrameDone == prog = "frame" /\ pc = "exit_success"

\* C19: the frame writer writes a selection into each chunk of the X by Y
\* dataset exactly once, for all dataset and chunk dimensions, the chunks at
\* the dataset's edge included when X is not a multiple of XC or Y is not a
\* multiple of YC.
C19_EveryChunkWrittenOnce ==
    FrameDone => \A c \in DatasetChunks : WritesInto(c) = 1

\* what the loops do when the slab fits its chunk: one write into each chunk
\* that lies in the dataset as a whole, none into a chunk at the edge
WholeChunksWrittenOnce ==
    (FrameDone /\ frame.m <= 100)
        => /\ Len(h5dwrites) = n_chunks_x * n_chunks_y
           /\ \A c \in VisitedChunks : WritesInto(c) = 1
           /\ \A c \in DatasetChunks \ VisitedChunks : WritesInto(c) = 0

\* X = 10 with XC = 4: the run has ended and the chunks of rows 8..9 were
\* never written
EdgeChunkNeverWritten ==
    /\ FrameDone
    /\ frame.xdim % frame.xchunk # 0
    /\ \E c \in DatasetChunks : c[1] = n_chunks_x /\ WritesInto(c) = 0

-----------------------------------------------------------------------------
(* The groups of mm2h5, checked under SpecMm *)

\* the data triplets among lines from..to of the input, in input order
TripletRun(from, to) == SelectSeq(SubSeq(lines, from, to), IsTriplet)

\* the second number of a triplet: the key of its group
Key(line) == line.nums[2]

\* the main loop is about to call read_next_group
AtGroupLoop == prog = "mm2h5" /\ pc = "groups"

\* the header is the first triplet of the input, and the first call reads on
\* from the line after it; an input without a triplet is read to its end
HeaderConsumed ==
    LET found == TripletsFrom(lines, 1)
    IN  IF found = {} THEN fpos = Len(lines) + 1 ELSE fpos = Min(found) + 1

\* the group handed to the store by the step is the run of the data triplets
\* of lines fpos..fpos' - 1: they share one key, which is not the key of the
\* group before, and the line that ended the run is a triplet of another key
\* that the next call reads first
GroupIsMaximalRun ==
    LET run == TripletRun(fpos, fpos' - 1)
    IN  /\ fpos' > fpos
        /\ Len(run) > 0
        /\ grp'.count = Len(run)
        /\ grp'.a = [i \in 1..Len(run) |-> Decrement(run[i].nums[1])]
        /\ grp'.b = [i \in 1..Len(run) |-> Decrement(Key(run[i]))]
        /\ grp'.c = [i \in 1..Len(run) |-> run[i].nums[3]]
        /\ \A i \in 1..Len(run) : Key(run[i]) = Key(run[1])
        /\ grp # NoGroupRead
              => /\ grp.b[1] # grp'.b[1]
                 /\ IsTriplet(lines[fpos])
                 /\ run[1] = lines[fpos]
        /\ fpos' <= Len(lines)
              => /\ IsTriplet(lines[fpos'])
                 /\ Key(lines[fpos']) # Key(run[1])
        /\ group_count' = group_count + 1

\* C20: group partition.  The groups emitted by successive read_next_group
\* calls are the maximal runs of consecutive data triplets with equal key
\* (second number): all triplets of a group share the key, adjacent groups
\* have different keys, the triplet that ends a group is the first triplet of
\* the next group, the header triplet belongs to no group, and the
\* concatenation of all emitted groups is the sequence of data triplets after
\* the header, each exactly once and in input order, the final group ended by
\* end-of-input included.
C20_GroupPartition ==
    [][AtGroupLoop
          => /\ group_count = 0 => HeaderConsumed
             /\ pc' = "groups" => GroupIsMaximalRun
             /\ pc' = "verify" => TripletsFrom(lines, fpos) = {}]_vars

\* two groups were emitted: one ended by a triplet of another key, and then
\* that triplet with the one after it, ended by the end of the input
C20_Witness ==
    /\ AtGroupLoop
    /\ group_count = 2
    /\ grp.count = 2
    /\ fpos = Len(lines) + 1
    /\ Len(lines) = 4
    /\ Key(lines[2]) # Key(lines[3])
    /\ Key(lines[3]) = Key(lines[4])
    /\ Len(points) = 3

-----------------------------------------------------------------------------
(* Lines that are no triplets, checked under SpecMm *)

\* the input with every line removed that is blank, a comment or does not
\* convert to three integers
DataLinesOnly(text) == SelectSeq(text, IsTriplet)

\* the groups successive read_next_group calls return from line pos on, each
\* with its a and b converted to 0-based as line 212 does
RECURSIVE GroupsFrom(_, _)
GroupsFrom(text, pos) ==
    LET g == read_next_group(text, pos)
    IN  IF g.count = 0 THEN <<>>
        ELSE <<[count |-> g.count, a |-> DecrementAll(g.a),
                b |-> DecrementAll(g.b), c |-> g.c]>>
             \o GroupsFrom(text, g.fpos)

\* the header and the groups the program has read so far are the ones of the
\* input text
SameHeaderAndGroups(text) ==
    LET hdr == ScanHeader(text, 1, 0, 0)
        groups == GroupsFrom(text, hdr.fpos)
    IN  /\ hdr.X # 0 /\ hdr.Y # 0
        /\ dims = <<hdr.X, hdr.Y>>
        /\ group_count <= Len(groups)
        /\ group_count > 0
              => /\ grp.count = groups[group_count].count
                 /\ grp.a = groups[group_count].a
                 /\ grp.b = groups[group_count].b
                 /\ grp.c = groups[group_count].c
        /\ (TripletsFrom(lines, fpos) = {}) = (group_count = Len(groups))

\* C21: non-data lines (blank lines, comment lines, lines that do not parse as
\* three integers) are skipped wherever they occur: the header and the
\* sequence of emitted groups for an input are the same as for that input with
\* all non-data lines removed, so such a line between two triplets with the
\* same key does not split their group.
C21_NonDataLinesSkipped ==
    AtGroupLoop => SameHeaderAndGroups(DataLinesOnly(lines))

\* what holds: the equivalence for every input that holds a triplet
SkippedAfterATriplet ==
    (AtGroupLoop /\ TripletsFrom(lines, 1) # {})
        => SameHeaderAndGroups(DataLinesOnly(lines))

\* a comment between two triplets of one key has not split their group
CommentInsideGroup ==
    /\ AtGroupLoop
    /\ Len(lines) = 4
    /\ lines[3] = Comment
    /\ grp.count = 2
    /\ group_count = 1

\* the group loop is entered with dimensions taken from a line of two
\* numbers, for an input that without this line is empty
HeaderFromShortLine ==
    /\ AtGroupLoop
    /\ DataLinesOnly(lines) = <<>>
    /\ dims = <<2, 2>>

-----------------------------------------------------------------------------
(* benchmarks/mm2h5.c: read_next_group followed line by line, with its *)
(* arrays a, b and c                                                    *)

\* size_t capacity = 16, line 69
INITIAL_CAPACITY == 16

\* the longest run of one key in the inputs of the line-by-line calls
MaxGroupLen == 65

\* the content of an array cell that was allocated and never assigned
Indeterminate == 0 - 1

\* malloc(capacity * sizeof(unsigned long long))
Malloc(capacity) == [i \in 1..capacity |-> Indeterminate]

\* realloc(arr, capacity * sizeof(unsigned long long)): the old cells are
\* kept, the new ones are indeterminate
Realloc(arr, capacity) ==
    [i \in 1..capacity |-> IF i <= Len(arr) THEN arr[i] ELSE Indeterminate]

\* arr[count] = value
Store(arr, count, value) == [arr EXCEPT ![count + 1] = value]

\* a variant of the test of line 99 that grows the arrays one append late
NeedsGrowthLate(count, capacity) == count > capacity

\* if (count == capacity), line 99
NeedsGrowth(count, capacity) == count = capacity

\* lines 99-112: the arrays are grown if need be and the triplet is stored at
\* index count
AppendTriplet(buf, t) ==
    LET capacity == IF NeedsGrowth(buf.count, buf.capacity)
                    THEN buf.capacity * 2 ELSE buf.capacity
        grow(arr) == IF NeedsGrowth(buf.count, buf.capacity)
                     THEN Realloc(arr, capacity) ELSE arr
    IN  [capacity |-> capacity,
         count |-> buf.count + 1,
         a |-> Store(grow(buf.a), buf.count, t[1]),
         b |-> Store(grow(buf.b), buf.count, t[2]),
         c |-> Store(grow(buf.c), buf.count, t[3]),
         appended |-> Append(buf.appended, t)]

\* lines 69-84: the arrays are allocated and the first triplet is stored
FirstTripletStored(t) ==
    [capacity |-> INITIAL_CAPACITY,
     count |-> 1,
     a |-> Store(Malloc(INITIAL_CAPACITY), 0, t[1]),
     b |-> Store(Malloc(INITIAL_CAPACITY), 0, t[2]),
     c |-> Store(Malloc(INITIAL_CAPACITY), 0, t[3]),
     appended |-> <<t>>]

\* count triplets of key y, numbered from..from + count - 1
KeyRun(y, from, count) == [i \in 1..count |-> Triplet(from + i - 1, y, i % 7)]

\* the inputs of the calls: runs of one key around the capacities 16, 32 and
\* 64, a comment and a short line inside a run, and a second run
GroupLengths == {1, 15, 16, 17, 32, 33, MaxGroupLen}

GroupInputs ==
    {KeyRun(1, 1, k) : k \in GroupLengths}
    \cup {KeyRun(1, 1, k) \o KeyRun(2, 1, 17) : k \in {1, 16, 17}}
    \cup {KeyRun(1, 1, 16) \o <<Comment, Line(<<1, 1>>)>> \o KeyRun(1, 17, 1),
          <<Comment>> \o KeyRun(3, 1, 2) \o <<Comment>>,
          <<Comment, Line(<<5>>)>>,
          <<>>}

InitGroup ==
    /\ prog = "read_next_group"
    /\ pc = "find"
    /\ rng = 1
    /\ lines \in GroupInputs
    /\ fpos = 1
    /\ gzip_level = 0
    /\ dims = <<0, 0>>
    /\ h5 = "none"
    /\ dset = [p \in {} |-> 0]
    /\ points = <<>>
    /\ cap_points = 0
    /\ group_count = 0
    /\ overflow = FALSE
    /\ grp = NoGroupRead
    /\ verify = NotVerified
    /\ rg = NoBuffer
    /\ SweepIdle
    /\ FrameIdle
    /\ VlIdle
    /\ MemIdle
    /\ LiveIdle
    /\ GenIdle

AtLine == fpos <= Len(lines)

ThisTriplet == <<lines[fpos].nums[1], lines[fpos].nums[2], lines[fpos].nums[3]>>

\* what a step of the call leaves alone, the heap apart
CallFrame ==
    UNCHANGED <<prog, rng, lines, gzip_level, dims, h5, dset, points,
                cap_points, group_count, overflow, grp, verify, sweepVars,
                frameVars, vlVars, liveVars, genVars>>

\* what a step of the call leaves alone when its allocations succeed
GroupFrame == CallFrame /\ UNCHANGED mem

\* malloc or realloc returned NULL for buffer: the test of lines 73 and 104
\* calls exit before the arrays are used
AllocationFailedAndDetected(buffer) ==
    /\ mem' = [mem EXCEPT !.failed = mem.failed \cup {buffer}]
    /\ pc' = "exit_failure"

\* lines 56-60 and 87-93: a line that is blank, a comment or no triplet
RgSkipLine ==
    /\ prog = "read_next_group" /\ pc \in {"find", "collect"}
    /\ AtLine /\ ~IsTriplet(lines[fpos])
    /\ fpos' = fpos + 1
    /\ UNCHANGED <<pc, rg>>
    /\ GroupFrame

\* lines 66-67: end of file before a triplet, the call returns 0
RgNotFound ==
    /\ prog = "read_next_group" /\ pc = "find"
    /\ ~AtLine
    /\ pc' = "returned"
    /\ UNCHANGED <<fpos, rg>>
    /\ GroupFrame

\* lines 61-84: the first triplet is found, the arrays are allocated
RgFirstTriplet ==
    /\ prog = "read_next_group" /\ pc = "find"
    /\ AtLine /\ IsTriplet(lines[fpos])
    /\ rg' = FirstTripletStored(ThisTriplet)
    /\ fpos' = fpos + 1
    /\ pc' = "collect"
    /\ GroupFrame

\* lines 70-76: one of the three malloc calls returns NULL
RgMallocFails ==
    /\ prog = "read_next_group" /\ pc = "find"
    /\ AtLine /\ IsTriplet(lines[fpos])
    /\ fpos' = fpos + 1
    /\ AllocationFailedAndDetected("group")
    /\ UNCHANGED rg
    /\ CallFrame

\* lines 95-98: a triplet of another key, pushed back with fseek
RgKeyChanges ==
    /\ prog = "read_next_group" /\ pc = "collect"
    /\ AtLine /\ IsTriplet(lines[fpos])
    /\ ThisTriplet[2] # rg.b[1]
    /\ pc' = "returned"
    /\ UNCHANGED <<fpos, rg>>
    /\ GroupFrame

\* lines 99-112: a triplet of the group's key
RgAppend ==
    /\ prog = "read_next_group" /\ pc = "collect"
    /\ AtLine /\ IsTriplet(lines[fpos])
    /\ ThisTriplet[2] = rg.b[1]
    /\ rg' = AppendTriplet(rg, ThisTriplet)
    /\ fpos' = fpos + 1
    /\ UNCHANGED pc
    /\ GroupFrame

\* lines 100-107: one of the three realloc calls returns NULL
RgReallocFails ==
    /\ prog = "read_next_group" /\ pc = "collect"
    /\ AtLine /\ IsTriplet(lines[fpos])
    /\ ThisTriplet[2] = rg.b[1]
    /\ NeedsGrowth(rg.count, rg.capacity)
    /\ fpos' = fpos + 1
    /\ AllocationFailedAndDetected("group")
    /\ UNCHANGED rg
    /\ CallFrame

\* lines 86 and 115-118: end of file, the call returns count
RgEndOfFile ==
    /\ prog = "read_next_group" /\ pc = "collect"
    /\ ~AtLine
    /\ pc' = "returned"
    /\ UNCHANGED <<fpos, rg>>
    /\ GroupFrame

\* main, lines 210 and 238: the arrays are freed and the next call is made
RgNextCall ==
    /\ prog = "read_next_group" /\ pc = "returned"
    /\ rg.count > 0
    /\ rg' = NoBuffer
    /\ pc' = "find"
    /\ UNCHANGED fpos
    /\ GroupFrame

NextGroup ==
    \/ RgSkipLine
    \/ RgNotFound
    \/ RgFirstTriplet
    \/ RgMallocFails
    \/ RgKeyChanges
    \/ RgAppend
    \/ RgReallocFails
    \/ RgEndOfFile
    \/ RgNextCall

SpecGroup == InitGroup /\ [][NextGroup]_vars

\* the line-by-line call returns what read_next_group gives for the position
\* the call started from
ReturnsTheGroup ==
    (prog = "read_next_group" /\ pc = "returned" /\ rg.count > 0)
        => \E pos \in 1..Len(lines) :
              LET g == read_next_group(lines, pos)
              IN  /\ g.count = rg.count
                  /\ g.fpos = fpos
                  /\ g.a = [i \in 1..rg.count |-> rg.a[i]]
                  /\ g.b = [i \in 1..rg.count |-> rg.b[i]]
                  /\ g.c = [i \in 1..rg.count |-> rg.c[i]]

\* the step stores a triplet in the arrays
Appends == rg' # NoBuffer /\ rg'.count # rg.count

\* C22: group buffer growth.  The group storage starts with capacity 16 and
\* doubles exactly when count == capacity before an append; at every append
\* count < capacity holds, and after any number of doublings the elements at
\* positions 0..count-1 are the triplets appended so far, unchanged and in
\* order.
C22_BufferGrowth ==
    [][prog = "read_next_group"
          => /\ (rg = NoBuffer /\ rg' # NoBuffer)
                    => rg'.capacity = INITIAL_CAPACITY
             /\ (rg # NoBuffer /\ rg' # NoBuffer)
                    => rg'.capacity = (IF Appends /\ rg.count = rg.capacity
                                       THEN 2 * rg.capacity ELSE rg.capacity)
             /\ Appends
                    => /\ rg.count < rg'.capacity
                       /\ rg'.count = rg.count + 1
                       /\ \A i \in 1..rg.count :
                             /\ rg'.a[i] = rg.a[i]
                             /\ rg'.b[i] = rg.b[i]
                             /\ rg'.c[i] = rg.c[i]
             /\ rg' # NoBuffer
                    => /\ Len(rg'.a) = rg'.capacity
                       /\ Len(rg'.b) = rg'.capacity
                       /\ Len(rg'.c) = rg'.capacity
                       /\ rg'.count <= rg'.capacity
                       /\ Len(rg'.appended) = rg'.count
                       /\ \A i \in 1..rg'.count :
                             <<rg'.a[i], rg'.b[i], rg'.c[i]>> = rg'.appended[i]]_vars

\* the arrays have doubled three times and hold the 65 triplets of the run
C22_Witness ==
    /\ prog = "read_next_group" /\ pc = "returned"
    /\ rg.capacity = 8 * INITIAL_CAPACITY
    /\ rg.count = 65
    /\ \A i \in 1..65 : <<rg.a[i], rg.b[i], rg.c[i]>> = <<i, 1, i % 7>>

-----------------------------------------------------------------------------
(* Termination of the random pattern of the frame writer *)

\* the steps of lines 160-195, from the first point of a chunk to its write
GenerateChunk ==
    \/ FramePoint
    \/ FrameRetry
    \/ FrameFill
    \/ FrameRandomWrite

\* main is one sequential program: inside the generation of a chunk's
\* selection a step that can be taken is taken
SpecFrameFair == SpecFrame /\ WF_vars(GenerateChunk)

\* the generation of a chunk's random selection has begun
FrameGenerating == prog = "frame" /\ pc = "point" /\ pt = 0

\* the selection of the chunk has been written with the requested number of
\* distinct points
ChunkSelectionWritten ==
    /\ prog = "frame" /\ pc \in {"chunk", "exit_success"}
    /\ Len(h5dwrites) > 0
    /\ H5Sget_select_npoints(h5dwrites[Len(h5dwrites)]) = num_points

\* C23: scattered selection generation with duplicate handling terminates.
\* For every chunk and every requested point count, a count equal to or
\* larger than the number of cells in the chunk included, the generation of
\* the chunk's random selection finishes with exactly the requested number of
\* distinct points, a duplicate draw being resolved without an unbounded
\* re-sampling retry loop.
C23_SelectionTerminates == FrameGenerating ~> ChunkSelectionWritten

\* what holds for the generator of the model: the selection is completed when
\* no more points are requested than the chunk has cells
CompletedWhenItFits ==
    (FrameGenerating /\ num_points <= frame.xchunk * frame.ychunk)
        ~> ChunkSelectionWritten

\* every cell of the chunk is selected and one more point is requested: no
\* draw can make the selection grow, the loop of lines 172-177 cannot end
StuckInRetry ==
    /\ prog = "frame" /\ pc = "retry"
    /\ H5Sget_select_npoints(filespace) = frame.xchunk * frame.ychunk
    /\ pt + 1 > H5Sget_select_npoints(filespace)

-----------------------------------------------------------------------------
(* Extents of the blocks requested, checked under SpecRect *)

\* the density sweep has selected its row runs
SweepRunsSelected == SelectionMade /\ hand.space_select = 3

\* C24: no generator ever requests a run length or a block extent of zero.
\* For every accepted density and every chunk shape the rectangular block
\* extents and the contiguous run length are at least 1 (a computed zero is
\* clamped to 1).
C24_NoZeroExtent ==
    /\ SweepBlockSelected => (hs.block[1] >= 1 /\ hs.block[2] >= 1)
    /\ SweepRunsSelected => (hs.block[1] = 1 /\ hs.block[2] >= 1)
    /\ FrameSlabPlaced => (slab.slab[1] >= 1 /\ slab.slab[2] >= 1)

\* m=0: the computed extents of 0 were replaced, a slab of 1 x 1 is placed
C24_Witness ==
    /\ FrameSlabPlaced
    /\ frame.m = 0
    /\ ISqrt((frame.xchunk * frame.xchunk * frame.m) \div 100) = 0
    /\ slab.slab = <<1, 1>>

\* the sweep at level 1 of the default chunk: a block of 1 x 10, runs of 1
SmallestSweepExtents ==
    /\ SelectionMade
    /\ n = 0
    /\ hand.space_select \in {2, 3}
    /\ hs.block[1] = 1

-----------------------------------------------------------------------------
(* Rejected configurations of the density sweep and of the ingester *)

InitConfig == InitSweep \/ InitMm

NextConfig == NextSweep \/ NextMm

SpecConfig == InitConfig /\ [][NextConfig]_vars

\* parse_command_line has called exit(1)
SweepRejected == prog = "sparse" /\ pc = "exit1"

\* main of mm2h5 has returned EXIT_FAILURE
IngesterRejected == prog = "mm2h5" /\ pc = "exit_failure"

\* C25: configuration errors fail fast.  When the density sweep rejects its
\* maximum density, topology selector, value policy or verbosity flag, and
\* when the ingester rejects its compression level or header, the rejection
\* happens before the first backing-store operation, so no output file, group
\* or dataset has been created.
C25_RejectedBeforeStore ==
    /\ SweepRejected
          => /\ ~OptionsValid(hand)
             /\ dataspace = {}
             /\ group = NoGroup
             /\ data = <<>>
             /\ st_assigned = NeverAssigned
    /\ IngesterRejected
          => /\ (gzip_level < 0 \/ gzip_level > 9 \/ dims[1] = 0 \/ dims[2] = 0)
             /\ h5 = "none"
             /\ dset = [p \in {} |-> 0]
             /\ group_count = 0
             /\ points = <<>>

\* the ingester has read a header of 0 x 2 and returned EXIT_FAILURE without
\* an output file
C25_Witness ==
    /\ IngesterRejected
    /\ gzip_level = 6
    /\ dims = <<0, 2>>
    /\ h5 = "none"

\* the sweep has rejected a topology selector of 4
SelectorRejected == SweepRejected /\ hand.space_select = 4 /\ dataspace = {}

-----------------------------------------------------------------------------
(* Allocations that fail, in the density sweep and in the ingester *)

\* malloc or realloc returned NULL for buffer and the program stored through
\* the pointer without a test: undefined behaviour, the run is killed
StoredThroughNull(buffer) ==
    /\ mem' = [failed |-> mem.failed \cup {buffer},
               stored |-> mem.stored \cup {buffer}]
    /\ pc' = "crashed"

\* sparse.c, lines 631-639: malloc(nelemts) returns NULL, the loop stores the
\* values through p
SweepDataNoMemory ==
    /\ prog = "sparse" /\ pc = "generate"
    /\ nelemts > 0
    /\ StoredThroughNull("data")
    /\ UNCHANGED <<prog, rng, sweepVars, mmVars, frameVars, vlVars, rgVars,
                   liveVars, genVars>>

\* mm2h5.c, lines 215-224: realloc(points, ...) returns NULL, the loop stores
\* the group's points through points
MmPointsNoMemory ==
    /\ prog = "mm2h5" /\ pc = "groups"
    /\ LET g == read_next_group(lines, fpos)
       IN  /\ g.count > 0
           /\ Len(points) + g.count > cap_points
    /\ StoredThroughNull("points")
    /\ UNCHANGED <<prog, rng, sweepVars, mmVars, frameVars, vlVars, rgVars,
                   liveVars, genVars>>

InitNoMemory == InitSweep \/ InitMm \/ InitGroup

NextNoMemory ==
    \/ NextSweep
    \/ NextMm
    \/ NextGroup
    \/ SweepDataNoMemory
    \/ MmPointsNoMemory

SpecNoMemory == InitNoMemory /\ [][NextNoMemory]_vars

\* C26: every failed buffer allocation or growth is detected and aborts the
\* run before the buffer is used: the group storage, the accumulated
\* verification point list, and the per-level and per-chunk value buffers are
\* never written through after a failed allocation.
C26_FailedAllocationAborts ==
    mem.failed # {}
        => /\ mem.stored = {}
           /\ pc = "exit_failure"

\* what holds: a failed allocation of the group storage ends the run before
\* the arrays are used
GroupStorageChecked ==
    "group" \in mem.failed
        => /\ mem.stored = {}
           /\ pc = "exit_failure"

\* the value buffer of a level was stored through after malloc returned NULL
NullValueBufferStored ==
    /\ prog = "sparse"
    /\ "data" \in mem.stored

\* the point list was stored through after realloc returned NULL
NullPointListStored ==
    /\ prog = "mm2h5"
    /\ "points" \in mem.stored

-----------------------------------------------------------------------------
(* Resources of an iteration, checked under SpecConfig *)

\* the loop over the levels, or over the groups, is at the start of an
\* iteration
AtIterationStart ==
    \/ prog = "sparse" /\ pc = "level"
    \/ prog = "mm2h5" /\ pc = "groups"

\* C27: resources are scoped to their iteration.  Every value buffer and every
\* store handle (dataset, dataspace, property list, group) that is acquired
\* while processing one density level or one group is released before the next
\* level or group starts, so the set of live resources at the start of each
\* iteration is the same as at the start of the first.
C27_ResourcesScoped == AtIterationStart => live = EmptyBag

\* what holds: the groups of the ingester leave nothing behind, and a level of
\* the sweep leaves the dataspace of create_structured_dsets, one per level
OneDataspacePerLevel ==
    /\ (prog = "mm2h5" /\ pc = "groups") => live = EmptyBag
    /\ (prog = "sparse" /\ pc = "level")
          => \/ n = 0 /\ live = EmptyBag
             \/ /\ n > 0
                /\ BagToSet(live) = {"structured dataspace"}
                /\ CopiesIn("structured dataspace", live) = n

\* the sweep has ended with 20 dataspaces that were never closed
DataspacesLeftOpen ==
    /\ prog = "sparse" /\ pc = "exit0"
    /\ CopiesIn("structured dataspace", live) = MAX_PERCENT

-----------------------------------------------------------------------------
(* The list of points kept for verification, checked under SpecMm *)

\* C28: the list of points kept for verification always has room for what is
\* stored in it.  After every group is appended total_points <= cap_points,
\* for every sequence of group sizes, and no point is written past the end of
\* the list.
C28_PointListHasRoom ==
    prog = "mm2h5" => (Len(points) <= cap_points /\ ~overflow)

\* what holds: the one doubling of lines 215-218 makes room for a first group
\* and for every group that fits into twice the old capacity
RoomAfterOneDoubling ==
    [][(prog = "mm2h5" /\ pc = "groups" /\ pc' = "groups"
          /\ (cap_points = 0 \/ Len(points') <= 2 * cap_points))
        => Len(points') <= cap_points']_vars

\* a group of 1 triplet and a group of 10: the list of 4 cells holds 11 points
PointStoredPastTheEnd ==
    /\ prog = "mm2h5" /\ lines = GrowthFile
    /\ group_count = 2
    /\ cap_points = 4
    /\ Len(points) = 11
    /\ overflow

-----------------------------------------------------------------------------
(* The selection of a density level, checked under SpecSweep *)

\* the selection of the level has been generated and the level is not over:
\* the positions at which it is written, encoded and measured
SelectionInUse ==
    prog = "sparse" /\ pc \in {"generate", "hdf5_dsets", "encoded_dspace",
                               "structured_dsets", "end_level"}

\* C29: density levels are independent.  The selection that is written, encoded
\* and measured at level n contains only coordinates generated at level n and
\* none from the levels before it, for every topology.
C29_LevelsIndependent == SelectionInUse => dataspace = generated

\* a level after the first is being measured, and its selection is not the
\* selection of the level before it
C29_Witness ==
    /\ SelectionInUse /\ pc = "structured_dsets"
    /\ n >= 1
    /\ hand.space_select = 1
    /\ dataspace = generated
    /\ Cardinality(dataspace) = nelemts

\* between two levels, and before the first, the dataspace does not select
\* the coordinates of a level: it selects nothing, or its whole extent at the
\* start
EmptiedBetweenLevels ==
    (prog = "sparse" /\ pc = "level")
        => dataspace = (IF n = 0 THEN H5Screate_simple(ChunkDims)
                        ELSE H5Sselect_none)

-----------------------------------------------------------------------------
(* The coordinates of a group, checked under SpecMm *)

\* C30: every coordinate the ingester selects for writing lies inside the
\* dataset bounds taken from the header, 0 <= a-1 < X and 0 <= b-1 < Y after
\* the conversion to 0-based; an input coordinate of 0 does not wrap around in
\* the unsigned subtraction.
C30_SelectedInBounds ==
    (prog = "mm2h5" /\ grp.count > 0)
        => /\ H5Sselect_valid(grp.dspace, dims)
           /\ \A i \in 1..grp.count :
                  grp.a[i] # ULL_MODULUS - 1 /\ grp.b[i] # ULL_MODULUS - 1

\* what holds: the store refuses the write of a selection that leaves the
\* dataset, so no cell outside the bounds is ever written
WrittenCellsInBounds ==
    prog = "mm2h5" => H5Sselect_valid(DOMAIN dset, dims)

\* the row 0 of the input was converted to the largest unsigned number and
\* selected
ZeroWrappedAndSelected ==
    /\ prog = "mm2h5" /\ grp.count > 0
    /\ \E i \in 1..grp.count :
           /\ grp.a[i] = ULL_MODULUS - 1
           /\ <<grp.a[i], grp.b[i]>> \in grp.dspace

\* a row beyond the X of the header was selected
RowBeyondHeaderSelected ==
    /\ prog = "mm2h5" /\ grp.count > 0
    /\ \E p \in grp.dspace : p[1] >= dims[1] /\ p[1] < ULL_MODULUS - 1

=============================================================================
